---- MODULE Spec2Model ----
(***************************************************************************)
(* Model of the page buffer pool (package manager, clock variant) and of   *)
(* the B+Tree built on it (package btree).                                 *)
(*                                                                         *)
(* A page is PageSize bytes; every field the code reads or writes is an    *)
(* aligned big-endian 8-byte word, so a page is modelled as the array of   *)
(* its PageSize/8 words, addressed by byte offset as in the code.          *)
(* Pointers into the pool (to a frame or to its bytes) are frame            *)
(* indices: two pointers to the same frame see each other's writes.        *)
(***************************************************************************)
EXTENDS Integers, Sequences, FiniteSets, TLC

\* ---------------------------------------------------------------- bounds
\* The program's PageSize is 4096 and MaxFrames is 100; the model scales
\* both down so that splits and evictions happen within a few operations.
\* A pool is built with MaxFrames frames for the callers that use the buffer
\* manager directly (Spec) and with TreeFrames frames under a B+Tree
\* (SpecTree): a tree keeps a pin on every page it allocates, so its pool has
\* to hold a few pages before the first one cannot be allocated.
PageSize == 80
MaxFrames == 2
TreeFrames == 4
\* Keys 1 .. MaxKey and values 1 .. MaxVal are inserted into the tree.
MaxKey == 5
MaxVal == 2
\* Page identifiers handed out by NewPage in one behaviour.
MaxPages == 3
\* Pins the callers hold at one time when they ask for one more.
MaxPin == 3
\* Values a client writes into a pinned page.
MaxByte == 1
\* Entries the free list of the free-list buffer manager holds when a caller
\* unpins one more page.
MaxFree == 2
\* The bulk loader: frames of its pool, records of the longest data file, and
\* length of the data files that are enumerated exhaustively.
LoadFrames == 8
MaxRecords == 13
MaxShort == 3
\* The page encoding: entries of the leaves that are encoded, and the largest
\* 8-byte value that is encoded (the largest integer the checker computes
\* with; the 4 most significant bytes of every encoded value are 0).
MaxEntries == 2
MaxId == 2^30 + (2^30 - 1)
\* The split-ordered hash: bits of a key (64 in the program), and the keys
\* 0 .. MaxHashKey the callers use besides the keys that have the top bit set.
KeyBits == 5
MaxHashKey == 7
\* The keys 0 .. MaxRaceKey that two goroutines insert at the same time.
MaxRaceKey == 3

\* ------------------------------------------------------ program constants
leafNode == 0
internalNode == 1
leafHeaderSize == 32
internalHeaderSize == 16
keySize == 8
valueSize == 8
ptrSize == 8

\* Every field of a page is a uint64: the model addresses pages by such words.
WordSize == keySize
PageWords == PageSize \div WordSize
Words == 0 .. (PageWords - 1)
FrameIdx == 0 .. (MaxFrames - 1)
\* len(bm.frames): MaxFrames in the program, the size the pool was built with here.
NumFrames(frames) == Cardinality(DOMAIN frames)
NoFrame == 0 - 1
NoPage == 0 - 1

Min(a, b) == IF a < b THEN a ELSE b

\* ------------------------------------------------------------- page bytes
\* var data [PageSize]byte : the zero value of a page.
ZeroPage == [w \in Words |-> 0]

\* binary.BigEndian.Uint64(data[off:])
Uint64(data, off) == data[off \div WordSize]

\* binary.BigEndian.PutUint64(data[off:], v)
PutUint64(data, off, v) == [data EXCEPT ![off \div WordSize] = v]

\* copy(dst[dOff:], src[sOff:sEnd]) : memmove of min(len(dst), len(src)) bytes
CopyBytes(dst, dOff, src, sOff, sEnd) ==
    LET n == Min(PageSize - dOff, sEnd - sOff) \div WordSize
        d == dOff \div WordSize
        s == sOff \div WordSize
    IN  [w \in Words |-> IF w >= d /\ w < d + n THEN src[w - d + s] ELSE dst[w]]

\* ---------------------------------------------------------- buffer manager
\* bufferPage{} : the zero value of a frame.
EmptyFrame ==
    [pageID |-> 0, data |-> ZeroPage, isDirty |-> FALSE, pinCount |-> 0, refBit |-> FALSE]

\* NewBufferManager. disk maps a page id to a *[PageSize]byte; every pointer
\* the code stores there is &frame.data, so an entry is a frame index.
NewBufferManager(n) ==
    [frames |-> [i \in 0 .. (n - 1) |-> EmptyFrame],
     disk |-> << >>,
     pageTable |-> << >>,
     clockHand |-> 0,
     nextPageID |-> 0]

\* *bm.disk[p] : the bytes the backing-store entry of p points at.
DiskBytes(b, p) == b.frames[b.disk[p]].data

RECURSIVE findVictimFrom(_, _, _)
findVictimFrom(frames, clockHand, i) ==
    IF i >= 2 * NumFrames(frames)
    THEN [frames |-> frames, clockHand |-> clockHand, idx |-> 0, err |-> TRUE]
    ELSE LET idx == (clockHand + i) % NumFrames(frames) IN
         IF frames[idx].pinCount > 0
         THEN findVictimFrom(frames, clockHand, i + 1)
         ELSE IF frames[idx].refBit
              THEN findVictimFrom([frames EXCEPT ![idx].refBit = FALSE], clockHand, i + 1)
              ELSE [frames |-> frames, clockHand |-> (idx + 1) % NumFrames(frames),
                    idx |-> idx, err |-> FALSE]

\* The sweep without the pin test (used to validate the pin-safety property).
RECURSIVE findVictimIgnoringPins(_, _, _)
findVictimIgnoringPins(frames, clockHand, i) ==
    IF i >= 2 * NumFrames(frames)
    THEN [frames |-> frames, clockHand |-> clockHand, idx |-> 0, err |-> TRUE]
    ELSE LET idx == (clockHand + i) % NumFrames(frames) IN
         IF frames[idx].refBit
         THEN findVictimIgnoringPins([frames EXCEPT ![idx].refBit = FALSE], clockHand, i + 1)
         ELSE [frames |-> frames, clockHand |-> (idx + 1) % NumFrames(frames),
               idx |-> idx, err |-> FALSE]

findVictim_anyFrame(b) == findVictimIgnoringPins(b.frames, b.clockHand, 0)

\* A sweep that takes the first unpinned frame whatever its reference flag.
RECURSIVE findVictimNoSecondChance(_, _, _)
findVictimNoSecondChance(frames, clockHand, i) ==
    IF i >= 2 * NumFrames(frames)
    THEN [frames |-> frames, clockHand |-> clockHand, idx |-> 0, err |-> TRUE]
    ELSE LET idx == (clockHand + i) % NumFrames(frames) IN
         IF frames[idx].pinCount > 0
         THEN findVictimNoSecondChance(frames, clockHand, i + 1)
         ELSE [frames |-> frames, clockHand |-> (idx + 1) % NumFrames(frames),
               idx |-> idx, err |-> FALSE]

findVictim_noSecondChance(b) == findVictimNoSecondChance(b.frames, b.clockHand, 0)

\* BufferManager.findVictim
findVictim(b) == findVictimFrom(b.frames, b.clockHand, 0)

\* The tail PinPage and NewPage share: write the dirty victim back, overwrite
\* the frame, then delete(pageTable, victim.pageID) and map the new page.
\* The delete runs after *victim was overwritten, so victim.pageID is already
\* the new page's id and the old page's mapping stays in the table.
Install(b, fv, pageID, newFrame) ==
    LET victim == fv.frames[fv.idx]
        disk1 == IF victim.isDirty THEN (victim.pageID :> fv.idx) @@ b.disk ELSE b.disk
        frames1 == [fv.frames EXCEPT ![fv.idx] = newFrame]
        written == frames1[fv.idx].pageID
        table1 == [p \in (DOMAIN b.pageTable) \ {written} |-> b.pageTable[p]]
    IN  [b EXCEPT !.frames = frames1,
                  !.disk = disk1,
                  !.clockHand = fv.clockHand,
                  !.pageTable = (pageID :> fv.idx) @@ table1]

\* BufferManager.PinPage : [bm, frame, err]
PinPage(b, pageID) ==
    IF pageID \in DOMAIN b.pageTable
    THEN LET idx == b.pageTable[pageID] IN
         [bm |-> [b EXCEPT !.frames[idx].pinCount = @ + 1, !.frames[idx].refBit = TRUE],
          frame |-> idx, err |-> "ok"]
    ELSE IF pageID \notin DOMAIN b.disk
    THEN [bm |-> b, frame |-> NoFrame, err |-> "page does not exist"]
    ELSE LET fv == findVictim(b) IN
         IF fv.err
         THEN [bm |-> [b EXCEPT !.frames = fv.frames], frame |-> NoFrame, err |-> "buffer full"]
         ELSE [bm |-> Install(b, fv, pageID,
                              [pageID |-> pageID, data |-> DiskBytes(b, pageID),
                               isDirty |-> FALSE, pinCount |-> 1, refBit |-> TRUE]),
               frame |-> fv.idx, err |-> "ok"]

\* BufferManager.UnpinPage : [bm, err]; "panic" is panic("pin count negative")
UnpinPage(b, pageID, isDirty) ==
    IF pageID \notin DOMAIN b.pageTable
    THEN [bm |-> b, err |-> "page not in buffer"]
    ELSE LET idx == b.pageTable[pageID]
             b1 == [b EXCEPT !.frames[idx].pinCount = @ - 1]
         IN  IF b1.frames[idx].pinCount < 0
             THEN [bm |-> b1, err |-> "panic"]
             ELSE [bm |-> [b1 EXCEPT !.frames[idx].isDirty = @ \/ isDirty], err |-> "ok"]

\* BufferManager.FlushPage : bm
FlushPage(b, pageID) ==
    IF pageID \in DOMAIN b.pageTable /\ b.frames[b.pageTable[pageID]].isDirty
    THEN LET idx == b.pageTable[pageID] IN
         [b EXCEPT !.disk = (pageID :> idx) @@ @, !.frames[idx].isDirty = FALSE]
    ELSE b

\* A NewPage that does not advance nextPageID (used to validate the
\* identifier-monotonicity property).
NewPage_noIncrement(b) ==
    LET pageID == b.nextPageID
        fv == findVictim(b)
    IN  IF fv.err
        THEN [bm |-> [b EXCEPT !.frames = fv.frames], pageID |-> 0,
              frame |-> NoFrame, err |-> "buffer full"]
        ELSE [bm |-> Install(b, fv, pageID,
                             [pageID |-> pageID, data |-> ZeroPage,
                              isDirty |-> TRUE, pinCount |-> 1, refBit |-> TRUE]),
              pageID |-> pageID, frame |-> fv.idx, err |-> "ok"]

\* BufferManager.NewPage : [bm, pageID, frame, err]
NewPage(b) ==
    LET pageID == b.nextPageID
        b1 == [b EXCEPT !.nextPageID = @ + 1]
        fv == findVictim(b1)
    IN  IF fv.err
        THEN [bm |-> [b1 EXCEPT !.frames = fv.frames], pageID |-> 0,
              frame |-> NoFrame, err |-> "buffer full"]
        ELSE [bm |-> Install(b1, fv, pageID,
                             [pageID |-> pageID, data |-> ZeroPage,
                              isDirty |-> TRUE, pinCount |-> 1, refBit |-> TRUE]),
              pageID |-> pageID, frame |-> fv.idx, err |-> "ok"]

\* Sizzle : the 8 big-endian bytes of a page id, most significant first.
RECURSIVE SizzleBytes(_, _)
SizzleBytes(v, n) == IF n = 0 THEN << >> ELSE Append(SizzleBytes(v \div 256, n - 1), v % 256)

Sizzle(pageID) == SizzleBytes(pageID, 8)

\* A decoder that reads binary.BigEndian.Uint32 of the first 4 bytes.
RECURSIVE UnsizzleBytes_uint32(_, _)
UnsizzleBytes_uint32(buf, n) ==
    IF n = 0 THEN 0
    ELSE IF n > 4 THEN UnsizzleBytes_uint32(buf, 4)
    ELSE UnsizzleBytes_uint32(buf, n - 1) * 256 + buf[n]

\* Unsizzle : binary.BigEndian.Uint64 of 8 bytes.
RECURSIVE UnsizzleBytes(_, _)
UnsizzleBytes(buf, n) == IF n = 0 THEN 0 ELSE UnsizzleBytes(buf, n - 1) * 256 + buf[n]

Unsizzle(buf) == UnsizzleBytes(buf, 8)

\* copy(data[off:], buf) for the 8 bytes of a sizzled page id.
PutBytes(data, off, buf) == [data EXCEPT ![off \div WordSize] = UnsizzleBytes(buf, 8)]

\* [8]byte(data[off:])
GetBytes(data, off) == SizzleBytes(data[off \div WordSize], 8)

\* ------------------------------------------------------------------ B+Tree
maxLeafEntries == (PageSize - leafHeaderSize) \div (keySize + valueSize)
maxInternalKeys == (PageSize - internalHeaderSize - ptrSize) \div (keySize + ptrSize)

initializeLeafPage(data) ==
    PutUint64(PutUint64(PutUint64(PutUint64(data, 0, leafNode), 8, 0), 16, 0), 24, 0)

initializeInternalPage(data) == PutUint64(PutUint64(data, 0, internalNode), 8, 0)

RECURSIVE searchLeafLoop(_, _, _, _)
searchLeafLoop(data, key, low, high) ==
    IF low > high THEN [value |-> 0, err |-> "key not found"]
    ELSE LET mid == (low + high) \div 2
             offset == leafHeaderSize + mid * (keySize + valueSize)
             currentKey == Uint64(data, offset)
         IN  IF key = currentKey THEN [value |-> Uint64(data, offset + keySize), err |-> "ok"]
             ELSE IF key < currentKey THEN searchLeafLoop(data, key, low, mid - 1)
             ELSE searchLeafLoop(data, key, mid + 1, high)

RECURSIVE leafPositionLoop(_, _, _, _)
leafPositionLoop(data, key, low, high) ==
    IF low > high THEN low
    ELSE LET mid == (low + high) \div 2
             currentKey == Uint64(data, leafHeaderSize + mid * (keySize + valueSize))
         IN  IF key = currentKey THEN mid
             ELSE IF key < currentKey THEN leafPositionLoop(data, key, low, mid - 1)
             ELSE leafPositionLoop(data, key, mid + 1, high)

\* A lookup that takes the entry at the insert position for the key without
\* comparing the key stored there.
searchLeaf_noKeyCheck(data, key) ==
    LET numKeys == Uint64(data, 8)
        pos == leafPositionLoop(data, key, 0, numKeys - 1)
    IN  IF pos < numKeys
        THEN [value |-> Uint64(data, leafHeaderSize + pos * (keySize + valueSize) + keySize),
              err |-> "ok"]
        ELSE [value |-> 0, err |-> "key not found"]

\* BTree.searchLeaf : [value, err]
searchLeaf(data, key) == searchLeafLoop(data, key, 0, Uint64(data, 8) - 1)

RECURSIVE internalPositionLoop(_, _, _, _, _)
internalPositionLoop(data, key, low, high, pos) ==
    IF low > high THEN pos
    ELSE LET mid == (low + high) \div 2
             keyOffset == internalHeaderSize + mid * (ptrSize + keySize) + ptrSize
             currentKey == Uint64(data, keyOffset)
         IN  IF key < currentKey THEN internalPositionLoop(data, key, low, mid - 1, mid)
             ELSE internalPositionLoop(data, key, mid + 1, high, mid + 1)

\* The loop of BTree.searchInternal: the index of the child to descend into.
searchInternalIndex(data, key) == internalPositionLoop(data, key, 0, Uint64(data, 8) - 1, 0)

\* BTree.searchInternal up to its recursive call: the child page id.
searchInternalChild(data, key) ==
    Unsizzle(GetBytes(data, internalHeaderSize + searchInternalIndex(data, key) * (ptrSize + keySize)))

\* BTree.findLeafInsertPosition
findLeafInsertPosition(data, numKeys, key) == leafPositionLoop(data, key, 0, numKeys - 1)

\* BTree.findInternalInsertPosition
findInternalInsertPosition(data, numKeys, key) == internalPositionLoop(data, key, 0, numKeys - 1, 0)

\* BTree.insertLeafEntry
insertLeafEntry(data, numKeys, pos, key, value) ==
    LET startOffset == leafHeaderSize + pos * (keySize + valueSize)
        endOffset == leafHeaderSize + numKeys * (keySize + valueSize)
        d1 == CopyBytes(data, startOffset + keySize + valueSize, data, startOffset, endOffset)
        d2 == PutUint64(d1, startOffset, key)
        d3 == PutUint64(d2, startOffset + keySize, value)
    IN  PutUint64(d3, 8, numKeys + 1)

\* BTree.splitLeaf : [old, new]
splitLeaf(oldData, newData, splitPos) ==
    LET n1 == CopyBytes(newData, leafHeaderSize, oldData,
                        leafHeaderSize + splitPos * (keySize + valueSize), PageSize)
        oldNumKeys == Uint64(oldData, 8)
        o1 == PutUint64(oldData, 8, splitPos)
        n2 == PutUint64(n1, 8, oldNumKeys - splitPos)
        nextPage == Uint64(o1, 16)
        n3 == PutUint64(n2, 16, nextPage)
        n4 == PutUint64(n3, 24, Uint64(o1, 24))
        o2 == PutUint64(o1, 16, Uint64(n4, 24))
    IN  [old |-> o2, new |-> n4]

\* BTree.insertInternalEntry
insertInternalEntry(data, numKeys, pos, key, childID) ==
    LET startOffset == internalHeaderSize + pos * (ptrSize + keySize)
        endOffset == internalHeaderSize + numKeys * (ptrSize + keySize)
        d1 == CopyBytes(data, startOffset + ptrSize + keySize, data, startOffset, endOffset)
        d2 == PutBytes(d1, startOffset, Sizzle(childID))
        d3 == PutUint64(d2, startOffset + ptrSize, key)
    IN  PutUint64(d3, 8, numKeys + 1)

\* BTree.splitInternal : [old, new, promotedKey]
splitInternal(oldData, newData, splitPos) ==
    LET promotedKey == Uint64(oldData, internalHeaderSize + splitPos * (ptrSize + keySize) + ptrSize)
        startOffset == internalHeaderSize + (splitPos + 1) * (ptrSize + keySize)
        n1 == CopyBytes(newData, internalHeaderSize, oldData, startOffset, PageSize)
        oldNumKeys == Uint64(oldData, 8)
    IN  [old |-> PutUint64(oldData, 8, splitPos),
         new |-> PutUint64(n1, 8, oldNumKeys - splitPos - 1),
         promotedKey |-> promotedKey]

\* *data = d for the data pointer of frame f.
Store(b, f, d) == [b EXCEPT !.frames[f].data = d]

\* defer bt.bm.UnpinPage(pageID, dirty), run when the call that pinned pageID
\* returns res: the error of UnpinPage is dropped.
DeferUnpin(res, pageID, dirty) == [res EXCEPT !.bm = UnpinPage(res.bm, pageID, dirty).bm]

\* BTree.search : [bm, value, err]. path is the set of frames the descent
\* has pinned: a descent that comes back to one of them never ends, and the
\* goroutine dies of stack exhaustion ("panic").
RECURSIVE search(_, _, _, _)

\* BTree.search once bt.bm.PinPage(pageID) returned r.
searchPinned(r, pageID, key, path) ==
    IF r.err # "ok" THEN [bm |-> r.bm, value |-> 0, err |-> r.err]
    ELSE IF r.frame \in path THEN [bm |-> r.bm, value |-> 0, err |-> "panic"]
    ELSE LET data == r.bm.frames[r.frame].data
             nodeType == Uint64(data, 0)
         IN  IF nodeType = leafNode
             THEN LET res == searchLeaf(data, key) IN
                  DeferUnpin([bm |-> r.bm, value |-> res.value, err |-> res.err],
                             pageID, FALSE)
             ELSE DeferUnpin(search(r.bm, searchInternalChild(data, key), key,
                                    path \cup {r.frame}),
                             pageID, FALSE)

search(b, pageID, key, path) == searchPinned(PinPage(b, pageID), pageID, key, path)

\* BTree.Get : [bm, value, err]
Get(b, root, key) == search(b, root, key, {})

\* BTree.insertLeaf at a full leaf, once bt.bm.NewPage() returned np. The
\* error of NewPage is dropped; on failure newData is nil and
\* initializeLeafPage dereferences it ("panic").
insertLeafSplit(np, f, pageID, numKeys, insertPos, key, value) ==
    IF np.err # "ok"
    THEN [bm |-> np.bm, splitKey |-> 0, newChild |-> 0, err |-> "panic"]
    ELSE LET data == np.bm.frames[f].data
             newData == initializeLeafPage(np.bm.frames[np.frame].data)
             splitPos == numKeys \div 2
             splitKey == Uint64(data, leafHeaderSize + splitPos * (keySize + valueSize))
             sp == splitLeaf(data, newData, splitPos)
             old1 == IF insertPos > splitPos THEN sp.old
                     ELSE insertLeafEntry(sp.old, splitPos, insertPos, key, value)
             new1 == IF insertPos > splitPos
                     THEN insertLeafEntry(sp.new, numKeys - splitPos,
                                          insertPos - splitPos, key, value)
                     ELSE sp.new
             nextPage == Uint64(old1, 16)
             new2 == PutUint64(PutUint64(new1, 16, nextPage), 24, pageID)
             old2 == PutUint64(old1, 16, np.pageID)
         IN  [bm |-> Store(Store(np.bm, f, old2), np.frame, new2),
              splitKey |-> splitKey, newChild |-> np.pageID, err |-> "ok"]

\* BTree.insertLeaf on the page in frame f : [bm, splitKey, newChild, err].
insertLeaf(b, f, pageID, key, value) ==
    LET data == b.frames[f].data
        numKeys == Uint64(data, 8)
        insertPos == findLeafInsertPosition(data, numKeys, key)
        offset == leafHeaderSize + insertPos * (keySize + valueSize)
    IN  IF insertPos < numKeys /\ Uint64(data, offset) = key
        THEN [bm |-> Store(b, f, PutUint64(data, offset + keySize, value)),
              splitKey |-> 0, newChild |-> 0, err |-> "ok"]
        ELSE IF numKeys < maxLeafEntries
        THEN [bm |-> Store(b, f, insertLeafEntry(data, numKeys, insertPos, key, value)),
              splitKey |-> 0, newChild |-> 0, err |-> "ok"]
        ELSE insertLeafSplit(NewPage(b), f, pageID, numKeys, insertPos, key, value)

\* BTree.insertInternal at a full node, once bt.bm.NewPage() returned np.
insertInternalSplit(np, f, numKeys, insertPos, promotedKey, newChild) ==
    IF np.err # "ok"
    THEN [bm |-> np.bm, splitKey |-> 0, newChild |-> 0, err |-> "panic"]
    ELSE LET data == np.bm.frames[f].data
             newData == initializeInternalPage(np.bm.frames[np.frame].data)
             splitPos == numKeys \div 2
             sp == splitInternal(data, newData, splitPos)
             old1 == IF insertPos > splitPos THEN sp.old
                     ELSE insertInternalEntry(sp.old, splitPos, insertPos,
                                              promotedKey, newChild)
             new1 == IF insertPos > splitPos
                     THEN insertInternalEntry(sp.new, numKeys - splitPos - 1,
                                              insertPos - splitPos - 1,
                                              promotedKey, newChild)
                     ELSE sp.new
         IN  [bm |-> Store(Store(np.bm, f, old1), np.frame, new1),
              splitKey |-> sp.promotedKey, newChild |-> np.pageID, err |-> "ok"]

\* BTree.insertInternal once the recursive bt.insert returned c
\* (promotedKey, newChild, err) : [bm, splitKey, newChild, err].
absorbPromotion(c, f, numKeys, insertPos) ==
    IF c.err # "ok" THEN c
    ELSE IF c.newChild = 0
    THEN [bm |-> c.bm, splitKey |-> 0, newChild |-> 0, err |-> "ok"]
    ELSE IF numKeys < maxInternalKeys
    THEN [bm |-> Store(c.bm, f, insertInternalEntry(c.bm.frames[f].data, numKeys, insertPos,
                                                    c.splitKey, c.newChild)),
          splitKey |-> 0, newChild |-> 0, err |-> "ok"]
    ELSE insertInternalSplit(NewPage(c.bm), f, numKeys, insertPos, c.splitKey, c.newChild)

\* BTree.insert : [bm, splitKey, newChild, err]
RECURSIVE insert(_, _, _, _, _)

\* BTree.insertInternal on the page in frame f.
insertInternal(b, f, key, value, path) ==
    LET data == b.frames[f].data
        numKeys == Uint64(data, 8)
        insertPos == findInternalInsertPosition(data, numKeys, key)
        childOffset == internalHeaderSize + insertPos * (ptrSize + keySize)
        childID == Unsizzle(GetBytes(data, childOffset))
    IN  absorbPromotion(insert(b, childID, key, value, path \cup {f}), f, numKeys, insertPos)

\* BTree.insert once bt.bm.PinPage(pageID) returned r.
insertPinned(r, pageID, key, value, path) ==
    IF r.err # "ok" THEN [bm |-> r.bm, splitKey |-> 0, newChild |-> 0, err |-> r.err]
    ELSE IF r.frame \in path
    THEN [bm |-> r.bm, splitKey |-> 0, newChild |-> 0, err |-> "panic"]
    ELSE LET nodeType == Uint64(r.bm.frames[r.frame].data, 0) IN
         DeferUnpin(IF nodeType = leafNode
                    THEN insertLeaf(r.bm, r.frame, pageID, key, value)
                    ELSE insertInternal(r.bm, r.frame, key, value, path),
                    pageID, TRUE)

insert(b, pageID, key, value, path) ==
    insertPinned(PinPage(b, pageID), pageID, key, value, path)

\* BTree.Insert at a root that split, once bt.bm.NewPage() returned np.
newRoot(np, root, splitKey, newChild) ==
    IF np.err # "ok" THEN [bm |-> np.bm, root |-> root, err |-> "panic"]
    ELSE LET d0 == initializeInternalPage(np.bm.frames[np.frame].data)
             d1 == PutBytes(d0, internalHeaderSize, Sizzle(root))
             d2 == PutUint64(d1, internalHeaderSize + ptrSize, splitKey)
             d3 == PutBytes(d2, internalHeaderSize + ptrSize + keySize, Sizzle(newChild))
             d4 == PutUint64(d3, 8, 1)
         IN  [bm |-> Store(np.bm, np.frame, d4), root |-> np.pageID, err |-> "ok"]

\* BTree.Insert once bt.insert returned r.
growRoot(r, root) ==
    IF r.err # "ok" THEN [bm |-> r.bm, root |-> root, err |-> r.err]
    ELSE IF r.newChild = 0 THEN [bm |-> r.bm, root |-> root, err |-> "ok"]
    ELSE newRoot(NewPage(r.bm), root, r.splitKey, r.newChild)

\* BTree.Insert : [bm, root, err]
Insert(b, root, key, value) == growRoot(insert(b, root, key, value, {}), root)

\* NewBTree once bm.NewPage() returned np.
newLeafRoot(np) ==
    IF np.err # "ok" THEN [bm |-> np.bm, root |-> 0, err |-> "panic"]
    ELSE [bm |-> Store(np.bm, np.frame, initializeLeafPage(np.bm.frames[np.frame].data)),
          root |-> np.pageID, err |-> "ok"]

\* NewBTree : [bm, root, err]
NewBTree(b) == newLeafRoot(NewPage(b))


\* ------------------------------------------------------------------ state
VARIABLES
    bm,          \* the BufferManager
    rootPageID,  \* BTree.rootPageID (NoPage while no tree was built)
    held,        \* pins the callers hold: page id -> count
    crashed,     \* the process ended in a panic
    shadow,      \* page id -> bytes the page had when it was last evicted dirty
    written,     \* key -> value of the last Insert of that key that returned nil
    ret,         \* what the last operation was and what it returned
    so,          \* the SplitOrderedHash (NoHash where none was built)
    threads      \* goroutine -> the call of the hash it is running

vars == <<bm, rootPageID, held, crashed, shadow, written, ret, so, threads>>

NoHash == << >>

PageIDs == 0 .. (MaxPages - 1)

Held(p) == IF p \in DOMAIN held THEN held[p] ELSE 0

RECURSIVE SumHeld(_)
SumHeld(ps) ==
    IF ps = {} THEN 0
    ELSE LET q == CHOOSE q \in ps : TRUE IN held[q] + SumHeld(ps \ {q})

TotalHeld == SumHeld(DOMAIN held)

\* A page is in a frame when its frame still carries its id.
Resident(b, p) == p \in DOMAIN b.pageTable /\ b.frames[b.pageTable[p]].pageID = p

\* A frame holds a page once some page was installed in it.
Occupied(b, i) == \E p \in DOMAIN b.pageTable : b.pageTable[p] = i

AllPinned(b) == \A i \in DOMAIN b.frames : b.frames[i].pinCount > 0

NoRet ==
    [op |-> "none", page |-> NoPage, err |-> "ok", frame |-> NoFrame,
     victim |-> NoFrame, evicted |-> NoPage, evictedDirty |-> FALSE,
     wasResident |-> FALSE, inDisk |-> FALSE, allPinned |-> FALSE,
     key |-> 0, value |-> 0]

\* What an operation that took frame `frame` as its victim reports.
Evicting(r, b, frame) ==
    [r EXCEPT !.victim = frame,
              !.evicted = IF Occupied(b, frame) THEN b.frames[frame].pageID ELSE NoPage,
              !.evictedDirty = b.frames[frame].isDirty]

\* The bytes of a dirty page at the moment its frame is taken.
Shadowed(b, frame) ==
    IF Occupied(b, frame) /\ b.frames[frame].isDirty
    THEN (b.frames[frame].pageID :> b.frames[frame].data) @@ shadow
    ELSE shadow

Init ==
    /\ bm = NewBufferManager(MaxFrames)
    /\ rootPageID = NoPage
    /\ held = << >>
    /\ crashed = FALSE
    /\ so = NoHash
    /\ threads = << >>
    /\ shadow = << >>
    /\ written = << >>
    /\ ret = NoRet

\* ----------------------------------------------- callers of the buffer pool
DoPinPage(p) ==
    /\ ~crashed
    /\ TotalHeld < MaxPin
    /\ LET r == PinPage(bm, p)
           miss == r.err = "ok" /\ p \notin DOMAIN bm.pageTable
           r0 == [NoRet EXCEPT !.op = "PinPage", !.page = p, !.err = r.err,
                               !.frame = r.frame,
                               !.wasResident = Resident(bm, p),
                               !.inDisk = p \in DOMAIN bm.disk,
                               !.allPinned = AllPinned(bm)]
       IN  /\ bm' = r.bm
           /\ held' = IF r.err = "ok" THEN (p :> Held(p) + 1) @@ held ELSE held
           /\ shadow' = IF miss THEN Shadowed(bm, r.frame) ELSE shadow
           /\ ret' = IF miss THEN Evicting(r0, bm, r.frame) ELSE r0
    /\ UNCHANGED <<rootPageID, crashed, written, so, threads>>

\* A caller releases a pin it holds, or unpins a page nobody has pinned.
DoUnpinPage(p, isDirty) ==
    /\ ~crashed
    /\ \/ Held(p) > 0
       \/ p \in DOMAIN bm.pageTable /\ bm.frames[bm.pageTable[p]].pinCount = 0
       \/ p \notin DOMAIN bm.pageTable
    /\ LET r == UnpinPage(bm, p, isDirty) IN
       /\ bm' = r.bm
       /\ crashed' = (r.err = "panic")
       /\ held' = IF r.err = "ok" /\ Held(p) > 0 THEN (p :> Held(p) - 1) @@ held ELSE held
       /\ ret' = [NoRet EXCEPT !.op = "UnpinPage", !.page = p, !.err = r.err,
                               !.wasResident = Resident(bm, p)]
    /\ UNCHANGED <<rootPageID, shadow, written, so, threads>>

DoFlushPage(p) ==
    /\ ~crashed
    /\ bm' = FlushPage(bm, p)
    /\ ret' = [NoRet EXCEPT !.op = "FlushPage", !.page = p,
                            !.wasResident = Resident(bm, p)]
    /\ UNCHANGED <<rootPageID, held, crashed, shadow, written, so, threads>>

DoNewPage ==
    /\ ~crashed
    /\ bm.nextPageID < MaxPages
    /\ LET r == NewPage(bm)
           r0 == [NoRet EXCEPT !.op = "NewPage", !.page = r.pageID, !.err = r.err,
                               !.frame = r.frame, !.allPinned = AllPinned(bm)]
       IN  /\ bm' = r.bm
           /\ held' = IF r.err = "ok" THEN (r.pageID :> Held(r.pageID) + 1) @@ held ELSE held
           /\ shadow' = IF r.err = "ok" THEN Shadowed(bm, r.frame) ELSE shadow
           /\ ret' = IF r.err = "ok" THEN Evicting(r0, bm, r.frame) ELSE r0
    /\ UNCHANGED <<rootPageID, crashed, written, so, threads>>

\* A caller that holds a pin on p writes through the pointer PinPage or
\* NewPage gave it.
WritePage(p, v) ==
    /\ ~crashed
    /\ Held(p) > 0
    /\ bm' = [bm EXCEPT !.frames[bm.pageTable[p]].data = PutUint64(@, 0, v)]
    /\ ret' = [NoRet EXCEPT !.op = "WritePage", !.page = p, !.frame = bm.pageTable[p],
                            !.wasResident = Resident(bm, p)]
    /\ UNCHANGED <<rootPageID, held, crashed, shadow, written, so, threads>>

Next ==
    \/ \E p \in PageIDs : DoPinPage(p)
    \/ \E p \in PageIDs, d \in BOOLEAN : DoUnpinPage(p, d)
    \/ \E p \in PageIDs : DoFlushPage(p)
    \/ DoNewPage
    \/ \E p \in PageIDs, v \in 1 .. MaxByte : WritePage(p, v)

Spec == Init /\ [][Next]_vars

\* ------------------------------------------------------------ tree callers
Keys == 1 .. MaxKey
Values == 1 .. MaxVal

\* The state after bm := NewBufferManager(); bt := NewBTree(bm).
InitTree ==
    \E t \in {NewBTree(NewBufferManager(TreeFrames))} :
    /\ bm = t.bm
    /\ rootPageID = t.root
    /\ held = (t.root :> 1)
    /\ crashed = FALSE
    /\ so = NoHash
    /\ threads = << >>
    /\ shadow = << >>
    /\ written = << >>
    /\ ret = NoRet

\* The pages one tree operation allocated stay pinned by the tree.
HeldAfter(b0, b1) ==
    [p \in (DOMAIN held) \cup (b0.nextPageID .. (b1.nextPageID - 1)) |->
        Held(p) + (IF p >= b0.nextPageID THEN 1 ELSE 0)]

DoInsert(key, value) ==
    /\ ~crashed
    /\ \E r \in {Insert(bm, rootPageID, key, value)} :
       /\ bm' = r.bm
       /\ rootPageID' = r.root
       /\ crashed' = (r.err = "panic")
       /\ held' = IF r.err = "panic" THEN held ELSE HeldAfter(bm, r.bm)
       /\ written' = IF r.err = "ok" THEN (key :> value) @@ written ELSE written
       /\ ret' = [NoRet EXCEPT !.op = "Insert", !.key = key, !.value = value, !.err = r.err]
    /\ UNCHANGED <<shadow, so, threads>>

\* A lookup returns to its caller and leaves no trace but what PinPage and
\* UnpinPage did to the pool; the properties below evaluate Get on the state.
DoGet(key) ==
    /\ ~crashed
    /\ \E r \in {Get(bm, rootPageID, key)} :
       /\ bm' = r.bm
       /\ crashed' = (r.err = "panic")
    /\ UNCHANGED <<rootPageID, held, shadow, written, ret, so, threads>>

NextTree ==
    \/ \E k \in Keys, v \in Values : DoInsert(k, v)
    \/ \E k \in Keys : DoGet(k)

SpecTree == InitTree /\ [][NextTree]_vars

\* ------------------------------------------------- buffer pool properties

\* C3: a page pinned again after its dirty frame was evicted comes back with
\* exactly the bytes it had when it was evicted.
C3_BytesSurviveEviction ==
    (ret.op = "PinPage" /\ ret.err = "ok" /\ ~ret.wasResident /\ ret.page \in DOMAIN shadow)
        => bm.frames[ret.frame].data = shadow[ret.page]

\* C4: the frame findVictim hands to PinPage or NewPage had pin count 0, and
\* PinPage and NewPage leave the page id and the bytes of every pinned frame
\* as they were.
C4_PinnedFrameNeverVictim ==
    [][/\ ret'.victim # NoFrame => bm.frames[ret'.victim].pinCount = 0
       /\ \A i \in FrameIdx :
            (bm.frames[i].pinCount > 0 /\ ret'.op \in {"PinPage", "NewPage"})
                => /\ bm'.frames[i].pageID = bm.frames[i].pageID
                   /\ bm'.frames[i].data = bm.frames[i].data]_vars

\* A NewPage took the frame of an unpinned page while another frame was pinned.
C4_Witness ==
    /\ ret.op = "NewPage" /\ ret.err = "ok" /\ ret.evicted # NoPage
    /\ \E i \in FrameIdx : i # ret.victim /\ bm.frames[i].pinCount > 0

\* The backing-store entry of p was created or its bytes changed in this step.
StoreChanged(p) ==
    /\ p \in DOMAIN bm'.disk
    /\ p \in DOMAIN bm.disk => DiskBytes(bm', p) # DiskBytes(bm, p)

\* C8: a backing-store entry changes only in the step that evicts that page's
\* dirty frame or flushes that page.
C8_StoreWrittenOnlyOnEvictOrFlush ==
    [][\A p \in PageIDs :
        StoreChanged(p)
            => \/ ret'.op = "FlushPage" /\ ret'.page = p
               \/ ret'.victim # NoFrame /\ ret'.evicted = p /\ ret'.evictedDirty]_vars

\* C9: NewPage, and PinPage of a page that is in no frame but in the backing
\* store, fail with "buffer full" exactly when every frame is pinned.
C9_ExhaustedIffAllPinned ==
    (ret.op = "NewPage" \/ (ret.op = "PinPage" /\ ~ret.wasResident /\ ret.inDisk))
        => ((ret.err = "buffer full") <=> ret.allPinned)

\* ------------------------------------------------------ B+Tree properties
\* The bytes of page p as a caller that pins it sees them.
PageData(p) == bm.frames[bm.pageTable[p]].data

IsLeaf(p) == Uint64(PageData(p), 0) = leafNode

NumKeys(p) == Uint64(PageData(p), 8)

LeafKey(p, i) == Uint64(PageData(p), leafHeaderSize + i * (keySize + valueSize))

LeafKeys(p) == {LeafKey(p, i) : i \in 0 .. (NumKeys(p) - 1)}

SepKey(p, i) == Uint64(PageData(p), internalHeaderSize + i * (ptrSize + keySize) + ptrSize)

Child(p, i) == Unsizzle(GetBytes(PageData(p), internalHeaderSize + i * (ptrSize + keySize)))

\* Height of the tallest tree the pool can hold.
MaxDepth == TreeFrames + 1

\* The keys stored in the leaves reachable from page p.
RECURSIVE SubtreeKeys(_, _)
SubtreeKeys(p, d) ==
    IF d = 0 \/ p \notin DOMAIN bm.pageTable THEN {}
    ELSE IF IsLeaf(p) THEN LeafKeys(p)
    ELSE UNION {SubtreeKeys(Child(p, i), d - 1) : i \in 0 .. NumKeys(p)}

\* The internal nodes reachable from page p.
RECURSIVE InternalNodes(_, _)
InternalNodes(p, d) ==
    IF d = 0 \/ p \notin DOMAIN bm.pageTable \/ IsLeaf(p) THEN {}
    ELSE {p} \cup UNION {InternalNodes(Child(p, i), d - 1) : i \in 0 .. NumKeys(p)}

\* The leaf reached from p through first children.
RECURSIVE LeftmostLeaf(_, _)
LeftmostLeaf(p, d) ==
    IF d = 0 \/ p \notin DOMAIN bm.pageTable \/ IsLeaf(p) THEN p
    ELSE LeftmostLeaf(Child(p, 0), d - 1)

\* The keys met following next-leaf pointers from leaf p until a 0 pointer;
\* a pointer back to a leaf already visited ends the walk with key 0 - 1.
RECURSIVE ChainKeys(_, _)
ChainKeys(p, seen) ==
    IF p \in seen \/ p \notin DOMAIN bm.pageTable THEN <<0 - 1>>
    ELSE LET here == [i \in 1 .. NumKeys(p) |-> LeafKey(p, i - 1)]
             next == Uint64(PageData(p), 16)
         IN  IF next = 0 THEN here ELSE here \o ChainKeys(next, seen \cup {p})

LeafScan == ChainKeys(LeftmostLeaf(rootPageID, MaxDepth), {})

\* C1: Get(k) returns the value of the most recent Insert(k, v), for every
\* key that was inserted.
C1_GetReturnsLastWritten ==
    ~crashed =>
        \A k \in DOMAIN written :
            LET g == Get(bm, rootPageID, k) IN g.err = "ok" /\ g.value = written[k]

\* C2: Get(k) of a key that was never inserted returns the not-found error
\* and no value.
C2_GetNeverInsertedNotFound ==
    (~crashed /\ rootPageID # NoPage) =>
        \A k \in Keys \ DOMAIN written :
            LET g == Get(bm, rootPageID, k) IN g.err = "key not found" /\ g.value = 0

\* The tree has split and keys on both sides of a missing key are stored.
C2_Witness ==
    /\ ~crashed /\ rootPageID # NoPage /\ ~IsLeaf(rootPageID)
    /\ \E k \in Keys \ DOMAIN written :
        /\ \E a \in DOMAIN written : a < k
        /\ \E c \in DOMAIN written : c > k

\* C5: the walk along next-leaf pointers from the leftmost leaf ends and
\* meets every inserted key exactly once, in strictly ascending order.
C5_LeafChainAscending ==
    (~crashed /\ rootPageID # NoPage) =>
        /\ \A i \in 1 .. Len(LeafScan) : LeafScan[i] \in DOMAIN written
        /\ \A i \in 1 .. (Len(LeafScan) - 1) : LeafScan[i] < LeafScan[i + 1]
        /\ \A k \in DOMAIN written : \E i \in 1 .. Len(LeafScan) : LeafScan[i] = k

\* C6: in every internal node reachable from the root, the keys under child i
\* are < key i (i < k) and >= key i-1 (i > 0).
C6_RoutingInvariant ==
    (~crashed /\ rootPageID # NoPage) =>
        \A n \in InternalNodes(rootPageID, MaxDepth) :
            \A i \in 0 .. NumKeys(n) :
                \A x \in SubtreeKeys(Child(n, i), MaxDepth) :
                    /\ i < NumKeys(n) => x < SepKey(n, i)
                    /\ i > 0 => x >= SepKey(n, i - 1)

\* C7: in every internal node, separator key i is >= every key under child i
\* and strictly < every key under child i+1.
C7_SeparatorBounds ==
    (~crashed /\ rootPageID # NoPage) =>
        \A n \in InternalNodes(rootPageID, MaxDepth) :
            \A i \in 0 .. (NumKeys(n) - 1) :
                /\ \A x \in SubtreeKeys(Child(n, i), MaxDepth) : SepKey(n, i) >= x
                /\ \A x \in SubtreeKeys(Child(n, i + 1), MaxDepth) : SepKey(n, i) < x

\* C10: an Insert of a key that was inserted before changes no entry count,
\* allocates no page and leaves the root identifier as it was.
C10_ReinsertOnlyOverwrites ==
    [][(ret'.op = "Insert" /\ ret'.err = "ok" /\ ret'.key \in DOMAIN written)
        => /\ rootPageID' = rootPageID
           /\ bm'.nextPageID = bm.nextPageID
           /\ \A p \in DOMAIN bm.pageTable :
                Uint64(bm'.frames[bm.pageTable[p]].data, 8) = NumKeys(p)]_vars

\* C11: an Insert whose split asks for a page while every frame is pinned
\* returns the pool-exhausted error to its caller, does not end the process,
\* and leaves every node page and the root identifier as they were.
C11_FailedSplitReturnsError ==
    [][(ret'.op = "Insert" /\ AllPinned(bm) /\ bm'.nextPageID # bm.nextPageID)
        => /\ ~crashed'
           /\ ret'.err = "buffer full"
           /\ rootPageID' = rootPageID
           /\ \A p \in DOMAIN bm.pageTable :
                bm'.frames[bm.pageTable[p]].data = PageData(p)]_vars

\* The tree after NewBTree on an empty pool and Insert(1, v), ..., Insert(n, v).
RECURSIVE AscendingInserts(_, _)
AscendingInserts(n, v) ==
    IF n = 0 THEN NewBTree(NewBufferManager(TreeFrames))
    ELSE LET t == AscendingInserts(n - 1, v) IN Insert(t.bm, t.root, n, v)

\* C12: with 3-entry leaves, after Insert of keys 1, 2, 3 in this order the
\* root is still the first leaf; the Insert of key 4 splits it, and the new
\* root has one separator, the 3rd inserted key, over the old root and a
\* new leaf.
C12_FourthAscendingInsertSplitsRoot ==
    \A v \in Values, n \in 1 .. 4 :
        LET t == AscendingInserts(n, v)
            first == AscendingInserts(0, v).root
        IN  (bm = t.bm /\ rootPageID = t.root) =>
                /\ n < 4 => (rootPageID = first /\ IsLeaf(rootPageID))
                /\ n = 4 => /\ ~IsLeaf(rootPageID)
                            /\ NumKeys(rootPageID) = 1
                            /\ Child(rootPageID, 0) = first
                            /\ Child(rootPageID, 1) \notin {first, rootPageID}
                            /\ IsLeaf(Child(rootPageID, 1))
                            /\ SepKey(rootPageID, 0) = 3

\* ------------------------------------ buffer manager, free-list variant
\* The second package manager of the repository: frames is a map from page
\* id to *bufferPage, data is a []byte. A backing-store entry is the slice of
\* the frame it was written from, so it shares the frame's bytes for as long
\* as that frame object lives: disk[p] = [data, shared], shared meaning "the
\* slice frames[p].data".
NewBufferManagerFL ==
    [disk |-> << >>, frames |-> << >>, freeList |-> << >>, nextPageID |-> 0]

IsFreeList(b) == "freeList" \in DOMAIN b

\* The bytes of bm.disk[p].
DiskBytesFL(m, p) ==
    IF m.disk[p].shared /\ p \in DOMAIN m.frames THEN m.frames[p].data ELSE m.disk[p].data

\* The frame object of p goes away (delete, or overwritten map entry): a
\* backing-store entry that shared its bytes keeps them as they are now.
DropFrameFL(m, p) ==
    LET disk1 == IF p \in DOMAIN m.disk
                 THEN [m.disk EXCEPT ![p] = [data |-> DiskBytesFL(m, p), shared |-> FALSE]]
                 ELSE m.disk
    IN  [m EXCEPT !.disk = disk1,
                  !.frames = [q \in (DOMAIN m.frames) \ {p} |-> m.frames[q]]]

\* BufferManager.PinPage (free-list variant) : [bm, err]
PinPageFL(m, pageID) ==
    IF pageID \in DOMAIN m.frames
    THEN [bm |-> [m EXCEPT !.frames[pageID].pinCount = @ + 1], err |-> "ok"]
    ELSE LET exists == pageID \in DOMAIN m.disk
             data == IF exists THEN m.disk[pageID].data ELSE ZeroPage
             disk1 == IF exists THEN [m.disk EXCEPT ![pageID].shared = TRUE] ELSE m.disk
             page == [pageID |-> pageID, data |-> data, isDirty |-> FALSE, pinCount |-> 1]
         IN  [bm |-> [m EXCEPT !.disk = disk1, !.frames = (pageID :> page) @@ @],
              err |-> "ok"]

\* BufferManager.UnpinPage (free-list variant) : [bm, err]
UnpinPageFL(m, pageID, isDirty) ==
    IF pageID \notin DOMAIN m.frames
    THEN [bm |-> m, err |-> "page not found"]
    ELSE LET m1 == [m EXCEPT !.frames[pageID].pinCount = @ - 1,
                             !.frames[pageID].isDirty = @ \/ isDirty]
         IN  [bm |-> IF m1.frames[pageID].pinCount = 0
                     THEN [m1 EXCEPT !.freeList = Append(@, pageID)]
                     ELSE m1,
              err |-> "ok"]

\* BufferManager.FlushPage (free-list variant) : [bm, err]
FlushPageFL(m, pageID) ==
    IF pageID \notin DOMAIN m.frames
    THEN [bm |-> m, err |-> "page not in buffer"]
    ELSE [bm |-> [m EXCEPT !.disk = (pageID :> [data |-> m.frames[pageID].data,
                                                 shared |-> TRUE]) @@ @,
                           !.frames[pageID].isDirty = FALSE],
          err |-> "ok"]

\* The eviction in NewPage: the head of the free list leaves the pool,
\* written back if dirty; an id that is in no frame is only popped.
EvictFL(m) ==
    LET evictID == Head(m.freeList)
        m1 == [m EXCEPT !.freeList = Tail(@)]
    IN  IF evictID \notin DOMAIN m1.frames THEN m1
        ELSE DropFrameFL(
                 IF m1.frames[evictID].isDirty
                 THEN [m1 EXCEPT !.disk = (evictID :> [data |-> m1.frames[evictID].data,
                                                       shared |-> TRUE]) @@ @]
                 ELSE m1,
                 evictID)

\* The end of NewPage: bm.frames[pageID] = &bufferPage{...} over fresh bytes.
InstallFL(m, pageID) ==
    LET m1 == IF pageID \in DOMAIN m.frames \/ pageID \in DOMAIN m.disk
              THEN DropFrameFL(m, pageID) ELSE m
        page == [pageID |-> pageID, data |-> ZeroPage, isDirty |-> TRUE, pinCount |-> 1]
    IN  [m1 EXCEPT !.frames = (pageID :> page) @@ @]

\* BufferManager.NewPage (free-list variant) : [bm, pageID, err]
NewPageFL(m) ==
    LET pageID == m.nextPageID
        m1 == [m EXCEPT !.nextPageID = @ + 1]
    IN  IF Cardinality(DOMAIN m1.frames) >= MaxFrames
        THEN IF Len(m1.freeList) = 0
             THEN [bm |-> m1, pageID |-> 0, err |-> "buffer pool full"]
             ELSE [bm |-> InstallFL(EvictFL(m1), pageID), pageID |-> pageID, err |-> "ok"]
        ELSE [bm |-> InstallFL(m1, pageID), pageID |-> pageID, err |-> "ok"]

\* ------------------------------- callers of the free-list buffer manager
\* What an operation on page p reports: ret as for the clock variant, and the
\* identifiers NewPage has returned so far.
RetFL(op, p, err, allocated) ==
    [NoRet EXCEPT !.op = op, !.page = p, !.err = err,
                  !.wasResident = p \in DOMAIN bm.frames,
                  !.inDisk = p \in DOMAIN bm.disk]
        @@ [allocated |-> allocated]

InitFL ==
    /\ bm = NewBufferManagerFL
    /\ rootPageID = NoPage
    /\ held = << >>
    /\ crashed = FALSE
    /\ so = NoHash
    /\ threads = << >>
    /\ shadow = << >>
    /\ written = << >>
    /\ ret = NoRet @@ [allocated |-> {}]

\* The pins held on the pages of ps.
RECURSIVE SumPinsFL(_, _)
SumPinsFL(m, ps) ==
    IF ps = {} THEN 0
    ELSE LET q == CHOOSE q \in ps : TRUE
         IN  (IF m.frames[q].pinCount > 0 THEN m.frames[q].pinCount ELSE 0)
                 + SumPinsFL(m, ps \ {q})

DoPinPageFL(p) ==
    /\ SumPinsFL(bm, DOMAIN bm.frames) < MaxPin
    /\ \E r \in {PinPageFL(bm, p)} :
        /\ bm' = r.bm
        /\ ret' = RetFL("PinPage", p, r.err, ret.allocated)
    /\ UNCHANGED <<rootPageID, held, crashed, shadow, written, so, threads>>

\* A caller unpins a page, also one whose pin count is already 0.
DoUnpinPageFL(p, isDirty) ==
    /\ p \in DOMAIN bm.frames => bm.frames[p].pinCount >= 0
    /\ Len(bm.freeList) < MaxFree
    /\ \E r \in {UnpinPageFL(bm, p, isDirty)} :
        /\ bm' = r.bm
        /\ ret' = RetFL("UnpinPage", p, r.err, ret.allocated)
    /\ UNCHANGED <<rootPageID, held, crashed, shadow, written, so, threads>>

DoFlushPageFL(p) ==
    /\ \E r \in {FlushPageFL(bm, p)} :
        /\ bm' = r.bm
        /\ ret' = RetFL("FlushPage", p, r.err, ret.allocated)
    /\ UNCHANGED <<rootPageID, held, crashed, shadow, written, so, threads>>

DoNewPageFL ==
    /\ bm.nextPageID < MaxPages
    /\ \E r \in {NewPageFL(bm)} :
        /\ bm' = r.bm
        /\ ret' = RetFL("NewPage", r.pageID, r.err,
                        IF r.err = "ok" THEN ret.allocated \cup {r.pageID}
                        ELSE ret.allocated)
    /\ UNCHANGED <<rootPageID, held, crashed, shadow, written, so, threads>>

\* A caller that has p pinned writes through the slice it was given.
WritePageFL(p, v) ==
    /\ p \in DOMAIN bm.frames
    /\ bm.frames[p].pinCount > 0
    /\ bm' = [bm EXCEPT !.frames[p].data = PutUint64(@, 0, v)]
    /\ ret' = RetFL("WritePage", p, "ok", ret.allocated)
    /\ UNCHANGED <<rootPageID, held, crashed, shadow, written, so, threads>>

\* The pages the callers name: as many as the pool has room for; NewPage
\* hands out further identifiers.
PageIDsFL == 0 .. (MaxFrames - 1)

NextFL ==
    \/ \E p \in PageIDsFL : DoPinPageFL(p)
    \/ \E p \in PageIDsFL, d \in BOOLEAN : DoUnpinPageFL(p, d)
    \/ \E p \in PageIDsFL : DoFlushPageFL(p)
    \/ DoNewPageFL
    \/ \E p \in PageIDsFL, v \in 1 .. MaxByte : WritePageFL(p, v)

SpecFL == InitFL /\ [][NextFL]_vars

\* ---------------------------------- properties of both buffer managers

\* C13: PinPage of a page that is in no frame and not in the backing store
\* fails with the not-found error and leaves the buffer manager (frames, pin
\* counts, page identifiers, backing store) exactly as it was.
C13_PinMissingPageNotFound ==
    [][(ret'.op = "PinPage" /\ ~ret'.wasResident /\ ~ret'.inDisk)
        => (ret'.err = "page does not exist" /\ bm' = bm)]_vars

\* The frame in which the buffer manager b looks page p up.
FrameOf(b, p) == IF IsFreeList(b) THEN b.frames[p] ELSE b.frames[b.pageTable[p]]

PinCountOf(b, p) == FrameOf(b, p).pinCount

\* Page p is in a frame of b.
InPool(b, p) == IF IsFreeList(b) THEN p \in DOMAIN b.frames ELSE Resident(b, p)

\* C14: no step leaves a frame with a negative pin count, and UnpinPage of a
\* resident page whose pin count is 0 is rejected with the count still 0.
C14_PinCountNeverNegative ==
    [][/\ \A i \in DOMAIN bm'.frames : bm'.frames[i].pinCount >= 0
       /\ (ret'.op = "UnpinPage" /\ ret'.wasResident /\ PinCountOf(bm, ret'.page) = 0)
            => (ret'.err # "ok" /\ PinCountOf(bm', ret'.page) = 0)]_vars

\* ------------------------------------------- both buffer managers at once
\* A behaviour of SpecManagers is a behaviour of either buffer manager.
InitManagers == Init \/ InitFL

NextManagers ==
    \/ ~IsFreeList(bm) /\ Next
    \/ IsFreeList(bm) /\ NextFL

SpecManagers == InitManagers /\ [][NextManagers]_vars

\* The identifiers NewPage has returned so far. The callers of the clock
\* variant hold an entry in held for exactly these (PinPage succeeds only on a
\* page NewPage created); the callers of the free-list variant record them.
Allocated == IF "allocated" \in DOMAIN ret THEN ret.allocated ELSE DOMAIN held

\* C15: a NewPage that succeeds returns an identifier greater than every
\* identifier NewPage returned before, and leaves that page in a frame with
\* pin count 1 and the dirty flag set.
C15_NewPageFreshPinnedDirty ==
    [][(ret'.op = "NewPage" /\ ret'.err = "ok")
        => /\ \A q \in Allocated : ret'.page > q
           /\ InPool(bm', ret'.page)
           /\ FrameOf(bm', ret'.page).pinCount = 1
           /\ FrameOf(bm', ret'.page).isDirty]_vars

\* A NewPage succeeded after an earlier one and after one that failed (an
\* identifier was skipped).
C15_Witness ==
    /\ ret.op = "NewPage" /\ ret.err = "ok"
    /\ Cardinality(Allocated) >= 2
    /\ ret.page >= Cardinality(Allocated)

\* The bytes of the backing-store entry of page p.
StoreBytes(b, p) == IF IsFreeList(b) THEN DiskBytesFL(b, p) ELSE DiskBytes(b, p)

\* C16: FlushPage returns success; on a page that is in a frame and dirty it
\* leaves the page's bytes in the backing store and the dirty flag cleared; on
\* any other page it changes nothing.
C16_FlushWritesOnlyDirtyResident ==
    [][ret'.op = "FlushPage"
        => /\ ret'.err = "ok"
           /\ IF ret'.wasResident /\ FrameOf(bm, ret'.page).isDirty
              THEN /\ ret'.page \in DOMAIN bm'.disk
                   /\ StoreBytes(bm', ret'.page) = FrameOf(bm, ret'.page).data
                   /\ ~FrameOf(bm', ret'.page).isDirty
              ELSE bm' = bm]_vars

\* ------------------------------------------------------------- bulk loader
\* package loader (the variant that sorts the records and builds the tree
\* bottom-up). entries is a sequence of [key, value]; the Go indices i, j are
\* 0-based, entries[i + 1] is the Go entries[i].
entriesPerLeaf == (PageSize - leafHeaderSize) \div (keySize + valueSize)
pointersPerNode == (PageSize - internalHeaderSize) \div (keySize + ptrSize)

RemoveAt(seq, i) == SubSeq(seq, 1, i - 1) \o SubSeq(seq, i + 1, Len(seq))

\* sort.Slice(entries, key <) : not stable, so every order of the records
\* that is ascending in the key is a possible result.
RECURSIVE sortSlice(_)
sortSlice(entries) ==
    IF Len(entries) = 0 THEN {<< >>}
    ELSE LET least == {i \in 1 .. Len(entries) :
                         \A j \in 1 .. Len(entries) : entries[i].key <= entries[j].key}
         IN  UNION {{<<entries[i]>> \o rest : rest \in sortSlice(RemoveAt(entries, i))} :
                    i \in least}

\* createLeafNodes: the loop over the entries. st = [bm, leaves, currentLeaf,
\* err], currentLeaf the frame of the leaf being filled (NoFrame for nil).
RECURSIVE createLeafLoop(_, _, _)

\* The two PutUint64 of entry i into the current leaf.
putEntry(st, entries, i) ==
    LET offset == leafHeaderSize + (i % entriesPerLeaf) * (keySize + valueSize)
        d0 == st.bm.frames[st.currentLeaf].data
        d1 == PutUint64(d0, offset, entries[i + 1].key)
        d2 == PutUint64(d1, offset + keySize, entries[i + 1].value)
    IN  createLeafLoop([st EXCEPT !.bm = Store(@, st.currentLeaf, d2)], entries, i + 1)

\* "Finalize previous leaf": the entry count of a leaf that is full.
finalizePrevious(st) ==
    IF st.currentLeaf # NoFrame
    THEN Store(st.bm, st.currentLeaf,
               PutUint64(st.bm.frames[st.currentLeaf].data, 8, entriesPerLeaf))
    ELSE st.bm

\* A new leaf is started, once bm.NewPage() returned np.
startLeaf(np, st, entries, i) ==
    IF np.err # "ok" THEN [st EXCEPT !.bm = np.bm, !.err = np.err]
    ELSE putEntry([bm |-> Store(np.bm, np.frame,
                                initializeLeafPage(np.bm.frames[np.frame].data)),
                   leaves |-> Append(st.leaves, np.pageID),
                   currentLeaf |-> np.frame,
                   err |-> "ok"],
                  entries, i)

createLeafLoop(st, entries, i) ==
    IF i >= Len(entries) THEN st
    ELSE IF i % entriesPerLeaf = 0
    THEN startLeaf(NewPage(finalizePrevious(st)), st, entries, i)
    ELSE putEntry(st, entries, i)

\* "Finalize last leaf".
finalizeLast(st, entries) ==
    IF st.err # "ok" \/ st.currentLeaf = NoFrame THEN st
    ELSE LET finalCount == IF Len(entries) % entriesPerLeaf = 0 THEN entriesPerLeaf
                           ELSE Len(entries) % entriesPerLeaf
         IN  [st EXCEPT !.bm = Store(@, st.currentLeaf,
                                     PutUint64(st.bm.frames[st.currentLeaf].data, 8,
                                               finalCount))]

\* createLeafNodes : [bm, leaves, currentLeaf, err]
createLeafNodes(b, entries) ==
    finalizeLast(createLeafLoop([bm |-> b, leaves |-> << >>, currentLeaf |-> NoFrame,
                                 err |-> "ok"],
                                entries, 0),
                 entries)

\* buildTreeFromLeaves: the loop over j, the children of one new node after
\* the first. st = [bm, frame, numKeys, err], frame the frame of the new node.
RECURSIVE addChildren(_, _, _, _)

\* One child, once bm.PinPage(leaves[j]) returned r. The error of PinPage is
\* dropped: childData is nil on failure and is dereferenced ("panic").
addChild(r, st, leaves, j, end) ==
    IF r.err # "ok" THEN [st EXCEPT !.bm = r.bm, !.err = "panic"]
    ELSE LET firstKey == Uint64(r.bm.frames[r.frame].data, leafHeaderSize)
             b1 == UnpinPage(r.bm, leaves[j + 1], FALSE).bm
             offset == internalHeaderSize + st.numKeys * (ptrSize + keySize) + ptrSize
             d1 == PutUint64(b1.frames[st.frame].data, offset, firstKey)
             d2 == PutBytes(d1, offset + keySize, Sizzle(leaves[j + 1]))
         IN  addChildren([st EXCEPT !.bm = Store(b1, st.frame, d2), !.numKeys = @ + 1],
                         leaves, j + 1, end)

addChildren(st, leaves, j, end) ==
    IF st.err # "ok" \/ j >= end THEN st
    ELSE addChild(PinPage(st.bm, leaves[j + 1]), st, leaves, j, end)

\* buildTreeFromLeaves: the loop over i, one new internal node per group of
\* pointersPerNode pages. lv = [bm, parents, err].
RECURSIVE buildLevel(_, _, _)

\* The end of one group: the key count is written, the node joins parents.
closeNode(st, pageID, lv, leaves, i) ==
    IF st.err # "ok" THEN [lv EXCEPT !.bm = st.bm, !.err = st.err]
    ELSE buildLevel([bm |-> Store(st.bm, st.frame,
                                  PutUint64(st.bm.frames[st.frame].data, 8, st.numKeys)),
                     parents |-> Append(lv.parents, pageID),
                     err |-> "ok"],
                    leaves, i + pointersPerNode)

\* One group, once bm.NewPage() returned np; panic(err) if it failed.
buildNode(np, lv, leaves, i) ==
    IF np.err # "ok" THEN [lv EXCEPT !.bm = np.bm, !.err = "panic"]
    ELSE LET end == Min(i + pointersPerNode, Len(leaves))
             d0 == initializeInternalPage(np.bm.frames[np.frame].data)
             d1 == PutBytes(d0, internalHeaderSize, Sizzle(leaves[i + 1]))
         IN  closeNode(addChildren([bm |-> Store(np.bm, np.frame, d1), frame |-> np.frame,
                                    numKeys |-> 0, err |-> "ok"],
                                   leaves, i + 1, end),
                       np.pageID, lv, leaves, i)

buildLevel(lv, leaves, i) ==
    IF lv.err # "ok" \/ i >= Len(leaves) THEN lv
    ELSE buildNode(NewPage(lv.bm), lv, leaves, i)

\* buildTreeFromLeaves : [bm, root, err]. seen is the set of page lists of
\* the calls still on the stack: a call with the list of one of them repeats
\* that call for ever, and the goroutine dies of stack exhaustion ("panic").
RECURSIVE buildTreeFromLeaves(_, _, _)

\* return buildTreeFromLeaves(bm, parents)
nextLevel(lv, seen) ==
    IF lv.err # "ok" THEN [bm |-> lv.bm, root |-> 0, err |-> lv.err]
    ELSE buildTreeFromLeaves(lv.bm, lv.parents, seen)

buildTreeFromLeaves(b, leaves, seen) ==
    IF Len(leaves) = 1 THEN [bm |-> b, root |-> leaves[1], err |-> "ok"]
    ELSE IF leaves \in seen THEN [bm |-> b, root |-> 0, err |-> "panic"]
    ELSE nextLevel(buildLevel([bm |-> b, parents |-> << >>, err |-> "ok"], leaves, 0),
                   seen \cup {leaves})

\* createBulkLoadedTree once createLeafNodes returned st.
buildFrom(st) ==
    IF st.err # "ok" THEN [bm |-> st.bm, root |-> 0, err |-> st.err]
    ELSE buildTreeFromLeaves(st.bm, st.leaves, {})

\* createBulkLoadedTree : [bm, root, err]
createBulkLoadedTree(b, entries) == buildFrom(createLeafNodes(b, entries))

\* --------------------------------------------------- callers of the loader
\* The record sequences a data file holds: every sequence of up to MaxShort
\* records over keys 1 .. MaxShort (unsorted, with repeated keys), and the
\* records (k, 10 k) for k = 1 .. n in ascending and in descending order, for
\* every n up to MaxRecords.
ShortRecords == [key : 1 .. MaxShort, value : Values]

ShortInputs == UNION {[1 .. n -> ShortRecords] : n \in 0 .. MaxShort}

Ramp(n, down) ==
    [i \in 1 .. n |-> LET k == IF down THEN n + 1 - i ELSE i
                      IN  [key |-> k, value |-> 10 * k]]

ExampleInput == <<[key |-> 5, value |-> 50], [key |-> 1, value |-> 10], [key |-> 3, value |-> 30]>>

LoadInputs ==
    ShortInputs \cup {Ramp(n, down) : n \in 0 .. MaxRecords, down \in BOOLEAN}
                \cup {ExampleInput}

\* key -> value of the last record with that key.
LastValues(records) ==
    [k \in {records[i].key : i \in 1 .. Len(records)} |->
        LET last == CHOOSE i \in 1 .. Len(records) :
                        /\ records[i].key = k
                        /\ \A j \in (i + 1) .. Len(records) : records[j].key # k
        IN  records[last].value]

\* The state after bm := NewBufferManager(), before LoadDataFile(bm, file).
InitLoad ==
    /\ bm = NewBufferManager(LoadFrames)
    /\ rootPageID = NoPage
    /\ held = << >>
    /\ crashed = FALSE
    /\ so = NoHash
    /\ threads = << >>
    /\ shadow = << >>
    /\ written = << >>
    /\ ret = NoRet

\* LoadDataFile on a file that holds records: readAndSortEntries, then
\* createBulkLoadedTree.
DoLoadDataFile(records) ==
    /\ ~crashed
    /\ ret.op = "none"
    /\ \E entries \in sortSlice(records) :
        \E t \in {createBulkLoadedTree(bm, entries)} :
            /\ bm' = t.bm
            /\ rootPageID' = IF t.err = "ok" THEN t.root ELSE NoPage
            /\ crashed' = (t.err = "panic")
            /\ written' = LastValues(records)
            /\ ret' = [NoRet EXCEPT !.op = "LoadDataFile", !.err = t.err]
                          @@ [records |-> records]
    /\ UNCHANGED <<held, shadow, so, threads>>

\* bt.Get(key) on the tree LoadDataFile returned.
DoGetLoaded(key) ==
    /\ rootPageID # NoPage
    /\ DoGet(key)

NextLoad ==
    \/ \E records \in LoadInputs : DoLoadDataFile(records)
    \/ \E k \in 1 .. MaxRecords : DoGetLoaded(k)

SpecLoad == InitLoad /\ [][NextLoad]_vars

\* ------------------------------------------------ bulk loader properties
LeafValue(p, i) == Uint64(PageData(p), leafHeaderSize + i * (keySize + valueSize) + keySize)

\* The leaves met following next-leaf pointers from leaf p until a 0 pointer;
\* a pointer to a leaf already visited or to no page ends the walk with 0 - 1.
RECURSIVE ChainLeaves(_, _)
ChainLeaves(p, seen) ==
    IF p \in seen \/ p \notin DOMAIN bm.pageTable THEN <<0 - 1>>
    ELSE LET next == Uint64(PageData(p), 16)
         IN  IF next = 0 THEN <<p>> ELSE <<p>> \o ChainLeaves(next, seen \cup {p})

LeafChain == ChainLeaves(LeftmostLeaf(rootPageID, MaxDepth), {})

\* The records of the leaves of a chain, in chain order.
RECURSIVE ChainRecords(_)
ChainRecords(chain) ==
    IF Len(chain) = 0 THEN << >>
    ELSE LET p == Head(chain)
         IN  (IF p \in DOMAIN bm.pageTable
              THEN [i \in 1 .. NumKeys(p) |->
                        [key |-> LeafKey(p, i - 1), value |-> LeafValue(p, i - 1)]]
              ELSE <<[key |-> 0 - 1, value |-> 0 - 1]>>)
                 \o ChainRecords(Tail(chain))

\* How often record r occurs in the sequence.
Occurrences(seq, r) == Cardinality({i \in 1 .. Len(seq) : seq[i] = r})

\* C17: after a bulk build the scan of the leaf chain yields exactly the
\* input records, ascending in the key, and the previous-leaf pointer of every
\* leaf of the chain names the leaf before it (0 at the first).
C17_BulkLeafScanSorted ==
    (ret.op = "LoadDataFile" /\ ret.err = "ok" /\ rootPageID # NoPage) =>
        LET scan == ChainRecords(LeafChain) IN
        /\ Len(scan) = Len(ret.records)
        /\ \A i \in 1 .. Len(scan) :
                Occurrences(scan, scan[i]) = Occurrences(ret.records, scan[i])
        /\ \A i \in 1 .. (Len(scan) - 1) : scan[i].key <= scan[i + 1].key
        /\ \A i \in 1 .. Len(LeafChain) :
                LeafChain[i] \in DOMAIN bm.pageTable
                    => Uint64(PageData(LeafChain[i]), 24)
                           = (IF i = 1 THEN 0 ELSE LeafChain[i - 1])

\* The records of the data file have pairwise distinct keys.
DistinctKeys(records) ==
    \A i, j \in 1 .. Len(records) : records[i].key = records[j].key => i = j

C19_BulkBuildEndsWithOneRoot ==
    ret.op = "LoadDataFile" =>
        /\ ~crashed
        /\ ret.err = "ok"
        /\ rootPageID \in DOMAIN bm.pageTable

\* ------------------------------------------------------------ page encoding
\* The byte level of a page: data[i] is byte i of the [PageSize]byte array.
ByteIdx == 0 .. (PageSize - 1)

ZeroBytes == [i \in ByteIdx |-> 0]

\* binary.BigEndian.PutUint64(data[off:], v) on the bytes of a page
BigEndianPutUint64(data, off, v) ==
    LET buf == SizzleBytes(v, 8)
    IN  [i \in ByteIdx |-> IF i >= off /\ i < off + 8 THEN buf[i - off + 1] ELSE data[i]]

\* binary.BigEndian.Uint64(data[off:]) on the bytes of a page
BigEndianUint64(data, off) == UnsizzleBytes([i \in 1 .. 8 |-> data[off + i - 1]], 8)

\* copy(data[dOff:], data[sOff:sEnd]) within one page (a memmove)
copyWithin(data, dOff, sOff, sEnd) ==
    LET n == Min(PageSize - dOff, sEnd - sOff)
    IN  [i \in ByteIdx |-> IF i >= dOff /\ i < dOff + n THEN data[sOff + (i - dOff)]
                           ELSE data[i]]

\* initializeLeafPage on the bytes of a page
initializeLeafBytes(data) ==
    BigEndianPutUint64(
        BigEndianPutUint64(
            BigEndianPutUint64(BigEndianPutUint64(data, 0, leafNode), 8, 0), 16, 0),
        24, 0)

\* BTree.insertLeafEntry on the bytes of a page
insertLeafEntryBytes(data, numKeys, pos, key, value) ==
    LET startOffset == leafHeaderSize + pos * (keySize + valueSize)
        endOffset == leafHeaderSize + numKeys * (keySize + valueSize)
        d1 == copyWithin(data, startOffset + keySize + valueSize, startOffset, endOffset)
        d2 == BigEndianPutUint64(d1, startOffset, key)
        d3 == BigEndianPutUint64(d2, startOffset + keySize, value)
    IN  BigEndianPutUint64(d3, 8, numKeys + 1)

\* The entries are written one insertLeafEntry at a time: in their order,
\* each behind the entries before it, or (front) last entry first, each in
\* front of the entries written before it.
RECURSIVE writeEntries(_, _, _, _)
writeEntries(data, entries, done, front) ==
    IF done = Len(entries) THEN data
    ELSE LET e == IF front THEN entries[Len(entries) - done] ELSE entries[done + 1]
         IN  writeEntries(insertLeafEntryBytes(data, done, IF front THEN 0 ELSE done,
                                               e.key, e.value),
                          entries, done + 1, front)

\* A leaf is written: initializeLeafPage, the entries, and the next-leaf and
\* previous-leaf fields as insertLeaf writes them.
EncodeLeaf(next, prev, entries, front) ==
    BigEndianPutUint64(
        BigEndianPutUint64(writeEntries(initializeLeafBytes(ZeroBytes), entries, 0, front),
                           16, next),
        24, prev)

\* A leaf is read as searchLeaf and insertLeaf read it.
DecodeLeaf(data) ==
    LET numKeys == BigEndianUint64(data, 8)
    IN  [count |-> numKeys,
         next |-> BigEndianUint64(data, 16),
         prev |-> BigEndianUint64(data, 24),
         entries |-> [i \in 1 .. numKeys |->
                        LET offset == leafHeaderSize + (i - 1) * (keySize + valueSize)
                        IN  [key |-> BigEndianUint64(data, offset),
                             value |-> BigEndianUint64(data, offset + keySize)]]]

\* The 8-byte values that are encoded: as keys and as page ids given to
\* Sizzle (Samples), as next and previous ids of a leaf (SampleIds), as values
\* of entries (SampleValues).
Samples == {0, 1, 258, 16909060, MaxId}

SampleIds == {0, 258, MaxId}

SampleValues == {1, 16909060}

SampleEntries ==
    UNION {[1 .. n -> [key : Samples, value : SampleValues]] : n \in 0 .. MaxEntries}

NoCall == [op |-> "none"]

\* The encoding is exercised without a pool: one leaf is written and read
\* back (ret), one page id goes through Sizzle and Unsizzle (written).
InitCodec ==
    /\ bm = NewBufferManager(MaxFrames)
    /\ rootPageID = NoPage
    /\ held = << >>
    /\ crashed = FALSE
    /\ so = NoHash
    /\ threads = << >>
    /\ shadow = << >>
    /\ written = NoCall
    /\ ret = NoCall

DoEncodeLeaf(next, prev, entries, front) ==
    /\ ret.op = "none"
    /\ \E data \in {EncodeLeaf(next, prev, entries, front)} :
         ret' = [op |-> "EncodeLeaf", next |-> next, prev |-> prev,
                 entries |-> entries, data |-> data]
    /\ UNCHANGED <<bm, rootPageID, held, crashed, shadow, written, so, threads>>

DoDecodeLeaf ==
    /\ ret.op = "EncodeLeaf"
    /\ \E leaf \in {DecodeLeaf(ret.data)} :
         ret' = [ret EXCEPT !.op = "DecodeLeaf"] @@ [leaf |-> leaf]
    /\ UNCHANGED <<bm, rootPageID, held, crashed, shadow, written, so, threads>>

DoSizzle(p) ==
    /\ written.op = "none"
    /\ written' = [op |-> "Sizzle", page |-> p, buf |-> Sizzle(p)]
    /\ UNCHANGED <<bm, rootPageID, held, crashed, shadow, ret, so, threads>>

DoUnsizzle ==
    /\ written.op = "Sizzle"
    /\ written' = [written EXCEPT !.op = "Unsizzle"] @@ [result |-> Unsizzle(written.buf)]
    /\ UNCHANGED <<bm, rootPageID, held, crashed, shadow, ret, so, threads>>

NextCodec ==
    \/ \E next \in SampleIds, prev \in SampleIds, entries \in SampleEntries, front \in BOOLEAN :
            DoEncodeLeaf(next, prev, entries, front)
    \/ DoDecodeLeaf
    \/ \E p \in Samples : DoSizzle(p)
    \/ DoUnsizzle

SpecCodec == InitCodec /\ [][NextCodec]_vars

\* C20: a leaf written with its entries and its next and previous ids as
\* big-endian 8-byte fields (the least significant byte of the entry count is
\* byte 15 of the page) reads back the same count, next, previous and entries,
\* and Unsizzle(Sizzle(p)) = p.
C20_PageEncodingRoundTrips ==
    /\ ret.op \in {"EncodeLeaf", "DecodeLeaf"} =>
            /\ \A i \in 8 .. 14 : ret.data[i] = 0
            /\ ret.data[15] = Len(ret.entries)
    /\ ret.op = "DecodeLeaf" =>
            ret.leaf = [count |-> Len(ret.entries), next |-> ret.next,
                        prev |-> ret.prev, entries |-> ret.entries]
    /\ written.op = "Sizzle" => Len(written.buf) = 8
    /\ written.op = "Unsizzle" => written.result = written.page

\* C20 witness: a leaf of MaxEntries entries whose fields have several
\* non-zero bytes was decoded, and such a page id went through Unsizzle.
C20_Witness ==
    /\ ret.op = "DecodeLeaf"
    /\ Len(ret.entries) = MaxEntries
    /\ ret.entries[1].key = 16909060
    /\ ret.entries[MaxEntries].value = 16909060
    /\ ret.next = MaxId
    /\ ret.prev = 258
    /\ written.op = "Unsizzle"
    /\ written.page = 16909060
    /\ written.buf = <<0, 0, 0, 0, 1, 2, 3, 4>>

\* ------------------------------------------------------ split-ordered hash
\* Package splitordered. The program's segmentBits is 8, maxSegments 1024
\* and maxLoadFactor 4; the model scales them down so that the table reaches
\* its largest size (segmentSize * maxSegments buckets) within a few inserts.
segmentBits == 1
segmentSize == 2 ^ segmentBits
maxSegments == 2
maxLoadFactor == 1

\* A *node is a node identifier, nilNode the nil pointer. The node a
\* goroutine allocates for a key is identified by the key and the goroutine
\* (0 for the one goroutine of the sequential callers).
nilNode == 0 - 1
NumOwners == 3
NodeOf(key, owner) == key * NumOwners + owner
KeyOf(n) == n \div NumOwners

\* var seg *segment = nil, and &segment{}
nilSegment == << >>
EmptySegment == [i \in 0 .. (segmentSize - 1) |-> nilNode]

\* bits.Reverse64 on words of KeyBits bits
RECURSIVE reverseLoop(_, _)
reverseLoop(x, n) ==
    IF n = 0 THEN 0 ELSE (x % 2) * 2 ^ (n - 1) + reverseLoop(x \div 2, n - 1)

reverseBits(x) == reverseLoop(x, KeyBits)

TopBit == 2 ^ (KeyBits - 1)

\* reverseBits(key | (1 << 63))
so_regularkey(key) == reverseBits(IF key >= TopBit THEN key ELSE key + TopBit)

so_dummykey(key) == reverseBits(key)

\* bits.LeadingZeros64: the position of the highest set bit of bucket > 0
RECURSIVE highBit(_)
highBit(x) == IF x <= 1 THEN 0 ELSE 1 + highBit(x \div 2)

\* getParent: bucket with its highest set bit cleared. For bucket 0 the shift
\* count is 0 - 1 and the program panics: the result is nilNode there.
getParent(bucket) == IF bucket = 0 THEN nilNode ELSE bucket - 2 ^ highBit(bucket)

\* NewSplitOrderedHash. heap is the memory of the nodes: node -> its next.
NewSplitOrderedHash ==
    [segments |-> [i \in 0 .. (maxSegments - 1) |->
                     IF i = 0 THEN [EmptySegment EXCEPT ![0] = NodeOf(so_dummykey(0), 0)]
                     ELSE nilSegment],
     size |-> 2,
     count |-> 0,
     heap |-> (NodeOf(so_dummykey(0), 0) :> nilNode)]

\* getBucket: the dummy node of the bucket, nilNode if there is none
getBucket(s, bucket) ==
    LET seg == s.segments[bucket \div segmentSize]
    IN  IF seg = nilSegment THEN nilNode ELSE seg[bucket % segmentSize]

setBucket(s, bucket, n) ==
    LET idx == bucket \div segmentSize
        seg == IF s.segments[idx] = nilSegment THEN EmptySegment ELSE s.segments[idx]
    IN  [s EXCEPT !.segments[idx] = [seg EXCEPT ![bucket % segmentSize] = n]]

\* The loop of listInsert, listDelete, Contains and Find: from the node
\* whose next field is the head, to the first node whose key is not below
\* key. [prev, curr], prev the node whose next field *prev is.
RECURSIVE listWalk(_, _, _, _)
listWalk(heap, prev, curr, key) ==
    IF curr # nilNode /\ KeyOf(curr) < key
    THEN listWalk(heap, curr, heap[curr], key)
    ELSE [prev |-> prev, curr |-> curr]

\* listInsert(&head.next, newNode) : [heap, ok]
listInsert(heap, head, newNode) ==
    LET w == listWalk(heap, head, heap[head], KeyOf(newNode))
    IN  IF w.curr # nilNode /\ KeyOf(w.curr) = KeyOf(newNode)
        THEN [heap |-> heap, ok |-> FALSE]
        ELSE [heap |-> [n \in (DOMAIN heap) \cup {newNode} |->
                          IF n = newNode THEN w.curr
                          ELSE IF n = w.prev THEN newNode
                          ELSE heap[n]],
              ok |-> TRUE]

\* listDelete(&head.next, key) : [heap, ok]. The node taken out of the list
\* is garbage: no pointer to it is left.
listDelete(heap, head, key) ==
    LET w == listWalk(heap, head, heap[head], key)
    IN  IF w.curr = nilNode \/ KeyOf(w.curr) # key
        THEN [heap |-> heap, ok |-> FALSE]
        ELSE [heap |-> [n \in (DOMAIN heap) \ {w.curr} |->
                          IF n = w.prev THEN heap[w.curr] ELSE heap[n]],
              ok |-> TRUE]

\* initializeBucket : [so, panic]
RECURSIVE initializeBucket(_, _, _, _)

\* initializeBucket once the dummy node pd of the parent is known.
linkDummy(s, bucket, pd, owner) ==
    LET dummyKey == so_dummykey(bucket)
        newDummy == NodeOf(dummyKey, owner)
        li == listInsert(s.heap, pd, newDummy)
        w == listWalk(s.heap, pd, s.heap[pd], dummyKey)
    IN  IF li.ok THEN setBucket([s EXCEPT !.heap = li.heap], bucket, newDummy)
        ELSE IF w.curr # nilNode /\ KeyOf(w.curr) = dummyKey
        THEN setBucket(s, bucket, w.curr)
        ELSE s

\* initializeBucket once initializeBucket(parent, size) returned r.
afterParent(r, bucket, parent, owner) ==
    IF r.panic \/ getBucket(r.so, parent) = nilNode THEN r
    ELSE [so |-> linkDummy(r.so, bucket, getBucket(r.so, parent), owner), panic |-> FALSE]

initializeBucket(s, bucket, size, owner) ==
    IF bucket >= segmentSize * maxSegments THEN [so |-> s, panic |-> FALSE]
    ELSE IF bucket = 0 THEN [so |-> s, panic |-> TRUE]
    ELSE IF getParent(bucket) >= size THEN [so |-> s, panic |-> FALSE]
    ELSE IF getBucket(s, getParent(bucket)) = nilNode
    THEN afterParent(initializeBucket(s, getParent(bucket), size, owner),
                     bucket, getParent(bucket), owner)
    ELSE [so |-> linkDummy(s, bucket, getBucket(s, getParent(bucket)), owner),
          panic |-> FALSE]

\* An Insert that doubles the table as soon as count / size reaches
\* maxLoadFactor.
insertLinked_atLoadFactor(s, li, sz) ==
    IF ~li.ok THEN [so |-> s, ok |-> FALSE, err |-> "ok"]
    ELSE LET count == s.count + 1
             maxSize == segmentSize * maxSegments
         IN  [so |-> [s EXCEPT !.heap = li.heap, !.count = count,
                               !.size = IF count \div sz >= maxLoadFactor /\ sz < maxSize
                                        THEN sz * 2 ELSE @],
              ok |-> TRUE, err |-> "ok"]

\* Insert once the bucket has its dummy node and listInsert returned li.
insertLinked(s, li, sz) ==
    IF ~li.ok THEN [so |-> s, ok |-> FALSE, err |-> "ok"]
    ELSE LET count == s.count + 1
             maxSize == segmentSize * maxSegments
         IN  [so |-> [s EXCEPT !.heap = li.heap, !.count = count,
                               !.size = IF count \div sz > maxLoadFactor /\ sz < maxSize
                                        THEN sz * 2 ELSE @],
              ok |-> TRUE, err |-> "ok"]

\* One pass of the loop of Insert. A pass that finds no dummy node after
\* initializeBucket is repeated for ever on the same table ("hang").
insertPass(r, key, sz, owner) ==
    IF r.panic THEN [so |-> r.so, ok |-> FALSE, err |-> "panic"]
    ELSE IF getBucket(r.so, key % sz) = nilNode
    THEN [so |-> r.so, ok |-> FALSE, err |-> "hang"]
    ELSE insertLinked(r.so,
                      listInsert(r.so.heap, getBucket(r.so, key % sz),
                                 NodeOf(so_regularkey(key), owner)),
                      sz)

\* SplitOrderedHash.Insert : [so, ok, err]
HashInsert(s, key, owner) ==
    IF getBucket(s, key % s.size) = nilNode
    THEN insertPass(initializeBucket(s, key % s.size, s.size, owner), key, s.size, owner)
    ELSE insertPass([so |-> s, panic |-> FALSE], key, s.size, owner)

\* SplitOrderedHash.Delete : [so, ok]
HashDelete(s, key) ==
    LET dummy == getBucket(s, key % s.size)
        ld == listDelete(s.heap, dummy, so_regularkey(key))
    IN  IF dummy = nilNode THEN [so |-> s, ok |-> FALSE]
        ELSE IF ld.ok THEN [so |-> [s EXCEPT !.heap = ld.heap, !.count = @ - 1], ok |-> TRUE]
        ELSE [so |-> s, ok |-> FALSE]

\* SplitOrderedHash.Contains
Contains(s, key) ==
    LET dummy == getBucket(s, key % s.size) IN
    IF dummy = nilNode THEN FALSE
    ELSE LET w == listWalk(s.heap, dummy, s.heap[dummy], so_regularkey(key))
         IN  w.curr # nilNode /\ KeyOf(w.curr) = so_regularkey(key)

\* SplitOrderedHash.Find
Find(s, key) ==
    LET bucket == key % s.size
        dummy == getBucket(s, bucket)
    IN  IF dummy = nilNode THEN FALSE
        ELSE LET w == listWalk(s.heap, dummy, s.heap[dummy], so_regularkey(key))
             IN  w.curr # nilNode /\ KeyOf(w.curr) = so_regularkey(key)

\* ------------------------------------------------------ callers of the hash
\* The keys of the callers: 0 .. MaxHashKey and one key with the top bit set.
HashKeys == (0 .. MaxHashKey) \cup {TopBit + 1}

\* One goroutine calls the hash. written is the set of the keys that were
\* inserted and not deleted since; ret is the last call and what it returned
\* (the key of an Insert or Delete is the key that joined or left written).
InitHash ==
    /\ bm = NewBufferManager(MaxFrames)
    /\ rootPageID = NoPage
    /\ held = << >>
    /\ crashed = FALSE
    /\ shadow = << >>
    /\ written = {}
    /\ ret = NoCall
    /\ so = NewSplitOrderedHash
    /\ threads = << >>

DoHashInsert(key) ==
    /\ ~crashed
    /\ \E r \in {HashInsert(so, key, 0)} :
        /\ so' = r.so
        /\ crashed' = (r.err # "ok")
        /\ ret' = [op |-> "Insert", ok |-> r.ok]
    /\ written' = written \cup {key}
    /\ UNCHANGED <<bm, rootPageID, held, shadow, threads>>

DoHashDelete(key) ==
    /\ ~crashed
    /\ \E r \in {HashDelete(so, key)} :
        /\ so' = r.so
        /\ ret' = [op |-> "Delete", ok |-> r.ok]
    /\ written' = written \ {key}
    /\ UNCHANGED <<bm, rootPageID, held, crashed, shadow, threads>>

DoContains(key) ==
    /\ ~crashed
    /\ ret' = [op |-> "Contains", ok |-> Contains(so, key)]
    /\ UNCHANGED <<bm, rootPageID, held, crashed, shadow, written, so, threads>>

DoFind(key) ==
    /\ ~crashed
    /\ ret' = [op |-> "Find", ok |-> Find(so, key)]
    /\ UNCHANGED <<bm, rootPageID, held, crashed, shadow, written, so, threads>>

NextHash ==
    \/ \E key \in HashKeys : DoHashInsert(key)
    \/ \E key \in HashKeys : DoHashDelete(key)
    \/ \E key \in HashKeys : DoContains(key)
    \/ \E key \in HashKeys : DoFind(key)

SpecHash == InitHash /\ [][NextHash]_vars

\* -------------------------------------------------------- hash properties
\* C21: Contains(k) and Find(k) are true exactly for the keys that were
\* inserted and not deleted since.
C21_ContainsIffInserted ==
    (so # NoHash /\ threads = << >>) =>
        \A k \in HashKeys :
            /\ Contains(so, k) = (k \in written)
            /\ Find(so, k) = (k \in written)

\* The keys reached from the dummy node of bucket 0: the whole list.
RECURSIVE ListKeys(_, _)
ListKeys(heap, n) ==
    IF n = nilNode THEN {} ELSE {KeyOf(n)} \cup ListKeys(heap, heap[n])

\* The keys that are in the list of the table.
InList(s) == ListKeys(s.heap, NodeOf(so_dummykey(0), 0))

\* C22: Delete of a key that is present (it was inserted and not deleted
\* since, and its node is in the list) returns true and removes it, and once
\* every inserted key has been deleted the count is 0 and no key is contained.
C22_DeletePresentKeyReturnsTrue ==
    [][(/\ ret'.op = "Delete"
        /\ written' # written
        /\ \A k \in written \ written' : so_regularkey(k) \in InList(so)) =>
          /\ ret'.ok
          /\ so'.count = so.count - 1
          /\ \A k \in written \ written' : ~Contains(so', k)
          /\ written' = {} =>
                /\ so'.count = 0
                /\ \A k \in HashKeys : ~Contains(so', k)]_vars

IsPowerOfTwo(n) == \E e \in 0 .. KeyBits : n = 2 ^ e

Goroutines == {1, 2}

Call(key) ==
    [pc |-> "start", key |-> key, sz |-> 0, dummy |-> nilNode, prev |-> nilNode,
     curr |-> nilNode, count |-> 0, ok |-> FALSE]

InitRace ==
    /\ bm = NewBufferManager(MaxFrames)
    /\ rootPageID = NoPage
    /\ held = << >>
    /\ crashed = FALSE
    /\ shadow = << >>
    /\ written = {}
    /\ ret = NoCall
    /\ so = NewSplitOrderedHash
    /\ \E k1, k2 \in 0 .. MaxRaceKey :
         /\ k1 # k2
         /\ threads = (1 :> Call(k1)) @@ (2 :> Call(k2))

RaceFrame == UNCHANGED <<bm, rootPageID, held, crashed, shadow, written, ret>>

\* sz := so.size; _, dummy := so.getBucket(key % sz)
ReadBucket(t) ==
    /\ threads[t].pc = "start"
    /\ threads' = [threads EXCEPT
                     ![t].sz = so.size,
                     ![t].dummy = getBucket(so, threads[t].key % so.size),
                     ![t].pc = IF getBucket(so, threads[t].key % so.size) = nilNode
                               THEN "initializeBucket" ELSE "listInsert"]
    /\ UNCHANGED so
    /\ RaceFrame

\* so.initializeBucket(bucket, sz); continue
InitializeBucket(t) ==
    /\ threads[t].pc = "initializeBucket"
    /\ \E r \in {initializeBucket(so, threads[t].key % threads[t].sz, threads[t].sz, t)} :
         so' = r.so
    /\ threads' = [threads EXCEPT ![t].pc = "start"]
    /\ RaceFrame

\* listInsert: the loop that finds prev and curr, and the test for the key
WalkList(t) ==
    /\ threads[t].pc = "listInsert"
    /\ \E w \in {listWalk(so.heap, threads[t].dummy, so.heap[threads[t].dummy],
                           so_regularkey(threads[t].key))} :
         threads' = [threads EXCEPT
                       ![t].prev = w.prev,
                       ![t].curr = w.curr,
                       ![t].pc = IF w.curr # nilNode
                                    /\ KeyOf(w.curr) = so_regularkey(threads[t].key)
                                 THEN "done" ELSE "link"]
    /\ UNCHANGED so
    /\ RaceFrame

\* listInsert: newNode.next = curr; *prev = newNode
LinkNode(t) ==
    /\ threads[t].pc = "link"
    /\ LET newNode == NodeOf(so_regularkey(threads[t].key), t)
       IN  so' = [so EXCEPT !.heap = [n \in (DOMAIN so.heap) \cup {newNode} |->
                                        IF n = newNode THEN threads[t].curr
                                        ELSE IF n = threads[t].prev THEN newNode
                                        ELSE so.heap[n]]]
    /\ threads' = [threads EXCEPT ![t].pc = "count"]
    /\ RaceFrame

\* so.count++ : the load
LoadCount(t) ==
    /\ threads[t].pc = "count"
    /\ threads' = [threads EXCEPT ![t].count = so.count, ![t].pc = "count++"]
    /\ UNCHANGED so
    /\ RaceFrame

\* so.count++ : the store
StoreCount(t) ==
    /\ threads[t].pc = "count++"
    /\ so' = [so EXCEPT !.count = threads[t].count + 1]
    /\ threads' = [threads EXCEPT ![t].pc = "resize"]
    /\ RaceFrame

\* if so.count/sz > maxLoadFactor && sz < maxSize { so.size = sz * 2 }; return true
Resize(t) ==
    /\ threads[t].pc = "resize"
    /\ so' = [so EXCEPT !.size = IF so.count \div threads[t].sz > maxLoadFactor
                                    /\ threads[t].sz < segmentSize * maxSegments
                                 THEN threads[t].sz * 2 ELSE @]
    /\ threads' = [threads EXCEPT ![t].ok = TRUE, ![t].pc = "done"]
    /\ RaceFrame

NextRace ==
    \/ \E t \in Goroutines : ReadBucket(t)
    \/ \E t \in Goroutines : InitializeBucket(t)
    \/ \E t \in Goroutines : WalkList(t)
    \/ \E t \in Goroutines : LinkNode(t)
    \/ \E t \in Goroutines : LoadCount(t)
    \/ \E t \in Goroutines : StoreCount(t)
    \/ \E t \in Goroutines : Resize(t)

SpecRace == InitRace /\ [][NextRace]_vars

\* C24: when two goroutines have inserted distinct keys at the same time,
\* both calls returned true, both keys are contained, and count grew by 2.
C24_ConcurrentInsertsBothSucceed ==
    (threads # << >> /\ \A t \in Goroutines : threads[t].pc = "done") =>
        /\ \A t \in Goroutines : threads[t].ok /\ Contains(so, threads[t].key)
        /\ so.count = 2

\* ------------------------------------------- clock buffer manager, again
\* C25: the page table agrees with the frames: the frame a page id is mapped
\* to holds that page, and no two page ids are mapped to one frame.
C25_PageTableMatchesFrames ==
    /\ \A p \in DOMAIN bm.pageTable : bm.frames[bm.pageTable[p]].pageID = p
    /\ \A p, q \in DOMAIN bm.pageTable :
            bm.pageTable[p] = bm.pageTable[q] => p = q

\* ------------------------------------------------- B+Tree nodes, again
\* The child pointers and the keys of an internal node of n keys.
NodeChildren(data, n) ==
    [j \in 1 .. (n + 1) |->
        Unsizzle(GetBytes(data, internalHeaderSize + (j - 1) * (ptrSize + keySize)))]

NodeKeys(data, n) ==
    [j \in 1 .. n |->
        Uint64(data, internalHeaderSize + (j - 1) * (ptrSize + keySize) + ptrSize)]

\* seq with x put in as its element number i.
InsertAt(seq, i, x) ==
    [j \in 1 .. (Len(seq) + 1) |->
        IF j < i THEN seq[j] ELSE IF j = i THEN x ELSE seq[j - 1]]

\* C26: an internal node of the tree with k < maxInternalKeys keys that
\* absorbs the pair (promotedKey, newChild) of the split of its child number
\* pos has k + 1 keys, keeps its k + 1 children in their order, and has the
\* promoted key right of child pos and newChild right of the promoted key.
C26_AbsorbKeepsChildren ==
    rootPageID \in DOMAIN bm.pageTable =>
        \A p \in InternalNodes(rootPageID, MaxDepth) :
            NumKeys(p) < maxInternalKeys =>
                \A pos \in 0 .. NumKeys(p) :
                    LET k == NumKeys(p)
                        promotedKey == MaxKey + 1
                        newChild == bm.nextPageID
                        data == insertInternalEntry(PageData(p), k, pos, promotedKey, newChild)
                    IN  /\ Uint64(data, 8) = k + 1
                        /\ NodeChildren(data, k + 1)
                              = InsertAt(NodeChildren(PageData(p), k), pos + 2, newChild)
                        /\ NodeKeys(data, k + 1)
                              = InsertAt(NodeKeys(PageData(p), k), pos + 1, promotedKey)

\* A tree that takes one more key than those of SpecTree, each with the
\* value 1: the leaf left of the first separator can fill up and split while
\* it has a next leaf.
WideKeys == 1 .. (MaxKey + 1)

NextTreeWide ==
    \/ \E k \in WideKeys : DoInsert(k, 1)
    \/ \E k \in WideKeys : DoGet(k)

SpecTreeWide == InitTree /\ [][NextTreeWide]_vars

\* The bytes of page p in pool b, and the leaves of the tree of root r there.
DataIn(b, p) == b.frames[b.pageTable[p]].data

RECURSIVE LeavesIn(_, _, _)
LeavesIn(b, p, d) ==
    IF d = 0 \/ p \notin DOMAIN b.pageTable THEN {}
    ELSE IF Uint64(DataIn(b, p), 0) = leafNode THEN {p}
    ELSE UNION {LeavesIn(b, Unsizzle(GetBytes(DataIn(b, p),
                                     internalHeaderSize + i * (ptrSize + keySize))), d - 1) :
                  i \in 0 .. Uint64(DataIn(b, p), 8)}

NextLeaf(b, p) == Uint64(DataIn(b, p), 16)

PrevLeaf(b, p) == Uint64(DataIn(b, p), 24)

\* C27: an Insert that splits the full leaf L (next leaf N, previous leaf P)
\* into L and the new leaf R leaves L.next = R, R.prev = L, R.next = N,
\* L.prev = P and, if N exists, N.prev = R; and after every Insert, for leaves
\* a and b, a.next = b if and only if b.prev = a.
C27_SplitRelinksLeaves ==
    [][(ret'.op = "Insert" /\ ret'.err = "ok" /\ ~crashed') =>
          /\ \A L \in LeavesIn(bm, rootPageID, MaxDepth) :
                LET R == bm.nextPageID
                    N == NextLeaf(bm, L)
                    P == PrevLeaf(bm, L)
                IN  (/\ bm'.nextPageID > bm.nextPageID
                     /\ Uint64(DataIn(bm, L), 8) = maxLeafEntries
                     /\ DataIn(bm', L) # DataIn(bm, L)) =>
                        /\ NextLeaf(bm', L) = R
                        /\ PrevLeaf(bm', R) = L
                        /\ NextLeaf(bm', R) = N
                        /\ PrevLeaf(bm', L) = P
                        /\ N # 0 => PrevLeaf(bm', N) = R
          /\ \A a, b \in LeavesIn(bm', rootPageID', MaxDepth) \ {0} :
                (NextLeaf(bm', a) = b) <=> (PrevLeaf(bm', b) = a)]_vars

\* C28: when NewBTree, Get or Insert has returned, no page of the pool is
\* pinned: the operation released every pin it took.
C28_TreeOperationsPinBalanced ==
    (rootPageID # NoPage /\ ~crashed) =>
        \A i \in DOMAIN bm.frames : bm.frames[i].pinCount = 0

\* The place of frame j in the circular order that starts at the clock hand.
Dist(b, j) == (j + NumFrames(b.frames) - b.clockHand) % NumFrames(b.frames)

Unpinned(b) == {j \in DOMAIN b.frames : ~(b.frames[j].pinCount > 0)}

\* The first frame of js in that order.
FirstFromHand(b, js) == CHOOSE j \in js : \A k \in js : Dist(b, j) <= Dist(b, k)

\* The frame the clock is to choose: the first unpinned frame whose flag is
\* clear, or, when every unpinned frame has its flag set, the first unpinned
\* frame (met again in the second sweep).
ClockVictim(b) ==
    LET clear == {j \in Unpinned(b) : ~b.frames[j].refBit}
    IN  IF clear # {} THEN FirstFromHand(b, clear) ELSE FirstFromHand(b, Unpinned(b))

\* The unpinned frames the clock passes before it stops at its victim.
Passed(b) ==
    LET clear == {j \in Unpinned(b) : ~b.frames[j].refBit}
    IN  IF clear # {}
        THEN {j \in Unpinned(b) : Dist(b, j) < Dist(b, ClockVictim(b))}
        ELSE Unpinned(b)

\* C29: in every state of the clock buffer manager findVictim returns the
\* first unpinned frame, in circular order from the hand, that it meets with
\* a clear reference flag; it clears the flag of the unpinned frames it
\* passed and changes nothing else, sets the hand behind the victim, and
\* reports exhaustion exactly when every frame is pinned, changing nothing.
C29_FindVictimIsClockSweep ==
    ~IsFreeList(bm) =>
        LET fv == findVictim(bm) IN
        IF Unpinned(bm) = {}
        THEN fv.err /\ fv.clockHand = bm.clockHand /\ fv.frames = bm.frames
        ELSE /\ ~fv.err
             /\ fv.idx = ClockVictim(bm)
             /\ fv.clockHand = (ClockVictim(bm) + 1) % NumFrames(bm.frames)
             /\ \A j \in DOMAIN bm.frames :
                    fv.frames[j] = IF j \in Passed(bm)
                                   THEN [bm.frames[j] EXCEPT !.refBit = FALSE]
                                   ELSE bm.frames[j]

\* C29 witness: NewPage has just run findVictim, and in the pool it left one
\* frame is pinned and every unpinned frame has its flag set, so that the next
\* sweep skips a frame, clears a flag and finds its victim in the second round.
C29_Witness ==
    /\ ret.op = "NewPage" /\ ret.err = "ok"
    /\ Unpinned(bm) # {}
    /\ Unpinned(bm) # DOMAIN bm.frames
    /\ \A j \in Unpinned(bm) : bm.frames[j].refBit
    /\ ~findVictim(bm).frames[ClockVictim(bm)].refBit

\* C30: a page that was pinned and, in the next operation, unpinned is not
\* the victim of an eviction that follows at once, provided a frame other
\* than its own is unpinned then.
C30_JustUsedPageSurvivesEviction ==
    [][(/\ ret.op = "PinPage" /\ ret.err = "ok"
        /\ ret'.op = "UnpinPage" /\ ret'.err = "ok"
        /\ ret'.page = ret.page
        /\ ~crashed'
        /\ ret.page \in DOMAIN bm'.pageTable
        /\ bm'.frames[bm'.pageTable[ret.page]].pageID = ret.page
        /\ bm'.frames[bm'.pageTable[ret.page]].pinCount = 0
        /\ bm'.frames[bm'.pageTable[ret.page]].refBit
        /\ Unpinned(bm') \ {bm'.pageTable[ret.page]} # {}) =>
          /\ ~findVictim(bm').err
          /\ findVictim(bm').idx # bm'.pageTable[ret.page]]_vars

\* ------------------------------------------ eviction from the free list

\* C31: in the free-list buffer manager a page that a step removes from the
\* pool has pin count 0 just before the step, and after every step each
\* resident page whose identifier is in the free list has pin count 0.
C31_EvictsOnlyUnpinnedPages ==
    [][/\ \A p \in DOMAIN bm.frames :
            p \notin DOMAIN bm'.frames => bm.frames[p].pinCount = 0
       /\ \A i \in DOMAIN bm'.freeList :
            bm'.freeList[i] \in DOMAIN bm'.frames
                => bm'.frames[bm'.freeList[i]].pinCount = 0]_vars

\* ------------------------- goroutines calling the clock buffer manager
\* Every operation of the buffer manager starts with bm.mu.Lock() and a
\* deferred bm.mu.Unlock(). A goroutine's call is followed statement by
\* statement: threads[g] is where goroutine g is (pc) and the locals of its
\* call; bm.mu is 0 when the mutex is free, else the goroutine that holds it.
NewBufferManagerMu(n) == NewBufferManager(n) @@ [mu |-> 0]

\* A goroutine outside the buffer manager that has made no call yet. After
\* a NewPage that ran while another NewPage was in progress has returned,
\* the record keeps the call's results until the goroutine's next call.
\* overlap: the goroutines that were in a call of NewPage while this call
\* of NewPage was in progress.
IdleCall ==
    [pc |-> "idle", op |-> "none", pageID |-> NoPage, isDirty |-> FALSE,
     idx |-> NoFrame, data |-> NoFrame, err |-> "ok", overlap |-> {}]

\* sync.Mutex: Lock returns only while no goroutine holds the mutex.
MutexFree(b) == b.mu = 0

\* The calls the goroutines make in one run; written counts them.
MaxCalls == 6

InitMutex ==
    /\ bm = NewBufferManagerMu(MaxFrames)
    /\ rootPageID = NoPage
    /\ held = << >>
    /\ crashed = FALSE
    /\ so = NoHash
    /\ threads = [g \in Goroutines |-> IdleCall]
    /\ shadow = << >>
    /\ written = 0
    /\ ret = NoRet

\* threads with the record of goroutine g replaced by t.
Goto(g, t) == [threads EXCEPT ![g] = t]

\* Goroutine h is in a call of NewPage that has not returned.
InNewPage(h) == threads[h].pc # "idle" /\ threads[h].op = "NewPage"

\* Goroutine g calls op: it stands before bm.mu.Lock().
Enter(g, op, p, d) ==
    /\ ~crashed
    /\ threads[g].pc = "idle"
    /\ written < MaxCalls
    /\ written' = written + 1
    /\ threads' = [h \in Goroutines |->
                     IF h = g
                     THEN [IdleCall EXCEPT !.pc = "Lock", !.op = op, !.pageID = p,
                                           !.isDirty = d,
                                           !.overlap = IF op = "NewPage"
                                                       THEN {k \in Goroutines \ {g} :
                                                               InNewPage(k)}
                                                       ELSE {}]
                     ELSE IF op = "NewPage" /\ InNewPage(h)
                          THEN [threads[h] EXCEPT !.overlap = @ \cup {g}]
                          ELSE threads[h]]
    /\ UNCHANGED <<bm, rootPageID, held, crashed, shadow, ret, so>>

\* The callers name pages that NewPage has handed out.
CallPinPage(g, p) ==
    /\ TotalHeld < MaxPin
    /\ p < bm.nextPageID
    /\ Enter(g, "PinPage", p, FALSE)

\* A goroutine releases a pin that has been taken on p.
CallUnpinPage(g, p, d) == Held(p) > 0 /\ Enter(g, "UnpinPage", p, d)

CallFlushPage(g, p) == p < bm.nextPageID /\ Enter(g, "FlushPage", p, FALSE)

CallNewPage(g) == bm.nextPageID < MaxPages /\ Enter(g, "NewPage", NoPage, FALSE)

\* bm.mu.Lock()
Lock(g) ==
    /\ ~crashed
    /\ threads[g].pc = "Lock"
    /\ MutexFree(bm)
    /\ bm' = [bm EXCEPT !.mu = g]
    /\ shadow' = bm
    /\ threads' = Goto(g, [threads[g] EXCEPT
                             !.pc = IF threads[g].op = "NewPage" THEN "pageID" ELSE "lookup"])
    /\ UNCHANGED <<rootPageID, held, crashed, written, ret, so>>

\* idx, exists := bm.pageTable[pageID], with the test that follows it.
Lookup(g) ==
    LET t == threads[g]
        exists == t.pageID \in DOMAIN bm.pageTable
        idx == IF exists THEN bm.pageTable[t.pageID] ELSE NoFrame
    IN  /\ ~crashed
        /\ t.pc = "lookup"
        /\ threads' = Goto(g,
             IF t.op = "PinPage"
             THEN IF exists THEN [t EXCEPT !.pc = "pinCount", !.idx = idx]
                  ELSE IF t.pageID \notin DOMAIN bm.disk
                       THEN [t EXCEPT !.pc = "Unlock", !.err = "page does not exist"]
                       ELSE [t EXCEPT !.pc = "findVictim", !.data = bm.disk[t.pageID]]
             ELSE IF t.op = "UnpinPage"
             THEN IF exists THEN [t EXCEPT !.pc = "pinCount", !.idx = idx]
                  ELSE [t EXCEPT !.pc = "Unlock", !.err = "page not in buffer"]
             ELSE IF exists /\ bm.frames[idx].isDirty
                  THEN [t EXCEPT !.pc = "disk", !.idx = idx]
                  ELSE [t EXCEPT !.pc = "Unlock"])
        /\ UNCHANGED <<bm, rootPageID, held, crashed, shadow, written, ret, so>>

\* PinPage: frame.pinCount++
IncPinCount(g) ==
    /\ ~crashed
    /\ threads[g].pc = "pinCount" /\ threads[g].op = "PinPage"
    /\ bm' = [bm EXCEPT !.frames[threads[g].idx].pinCount = @ + 1]
    /\ threads' = Goto(g, [threads[g] EXCEPT !.pc = "refBit"])
    /\ UNCHANGED <<rootPageID, held, crashed, shadow, written, ret, so>>

\* PinPage: frame.refBit = true
SetRefBit(g) ==
    /\ ~crashed
    /\ threads[g].pc = "refBit"
    /\ bm' = [bm EXCEPT !.frames[threads[g].idx].refBit = TRUE]
    /\ threads' = Goto(g, [threads[g] EXCEPT !.pc = "Unlock"])
    /\ UNCHANGED <<rootPageID, held, crashed, shadow, written, ret, so>>

\* UnpinPage: frame.pinCount--, then the panic on a negative count; the
\* deferred Unlock runs while the panic unwinds.
DecPinCount(g) ==
    LET t == threads[g]
        b1 == [bm EXCEPT !.frames[t.idx].pinCount = @ - 1]
        panic == b1.frames[t.idx].pinCount < 0
    IN  /\ ~crashed
        /\ t.pc = "pinCount" /\ t.op = "UnpinPage"
        /\ bm' = IF panic THEN [b1 EXCEPT !.mu = 0] ELSE b1
        /\ crashed' = panic
        /\ shadow' = IF panic THEN << >> ELSE shadow
        /\ threads' = Goto(g, IF panic THEN IdleCall ELSE [t EXCEPT !.pc = "isDirty"])
        /\ UNCHANGED <<rootPageID, held, written, ret, so>>

\* UnpinPage: frame.isDirty = frame.isDirty || isDirty;
\* FlushPage: frame.isDirty = false
SetDirty(g) ==
    LET t == threads[g] IN
    /\ ~crashed
    /\ t.pc = "isDirty"
    /\ bm' = [bm EXCEPT !.frames[t.idx].isDirty =
                            IF t.op = "UnpinPage" THEN @ \/ t.isDirty ELSE FALSE]
    /\ threads' = Goto(g, [t EXCEPT !.pc = "Unlock"])
    /\ UNCHANGED <<rootPageID, held, crashed, shadow, written, ret, so>>

\* NewPage: pageID := bm.nextPageID
ReadNextPageID(g) ==
    /\ ~crashed
    /\ threads[g].pc = "pageID"
    /\ threads' = Goto(g, [threads[g] EXCEPT !.pc = "nextPageID", !.pageID = bm.nextPageID])
    /\ UNCHANGED <<bm, rootPageID, held, crashed, shadow, written, ret, so>>

\* NewPage: bm.nextPageID++
IncNextPageID(g) ==
    /\ ~crashed
    /\ threads[g].pc = "nextPageID"
    /\ bm' = [bm EXCEPT !.nextPageID = @ + 1]
    /\ threads' = Goto(g, [threads[g] EXCEPT !.pc = "findVictim"])
    /\ UNCHANGED <<rootPageID, held, crashed, shadow, written, ret, so>>

\* victimIdx, err := bm.findVictim()
FindVictim(g) ==
    /\ ~crashed
    /\ threads[g].pc = "findVictim"
    /\ \E fv \in {findVictim(bm)} :
        /\ bm' = [bm EXCEPT !.frames = fv.frames, !.clockHand = fv.clockHand]
        /\ threads' = Goto(g, IF fv.err
                              THEN [threads[g] EXCEPT !.pc = "Unlock", !.err = "buffer full"]
                              ELSE [threads[g] EXCEPT !.pc = "disk", !.idx = fv.idx])
    /\ UNCHANGED <<rootPageID, held, crashed, shadow, written, ret, so>>

\* PinPage, NewPage: if victim.isDirty { bm.disk[victim.pageID] = &victim.data };
\* FlushPage: bm.disk[pageID] = &frame.data
WriteDisk(g) ==
    LET t == threads[g]
        frame == bm.frames[t.idx]
    IN  /\ ~crashed
        /\ t.pc = "disk"
        /\ bm' = IF t.op = "FlushPage"
                 THEN [bm EXCEPT !.disk = (t.pageID :> t.idx) @@ @]
                 ELSE IF frame.isDirty
                      THEN [bm EXCEPT !.disk = (frame.pageID :> t.idx) @@ @]
                      ELSE bm
        /\ threads' = Goto(g, [t EXCEPT !.pc = IF t.op = "FlushPage" THEN "isDirty"
                                               ELSE "victim"])
        /\ UNCHANGED <<rootPageID, held, crashed, shadow, written, ret, so>>

\* PinPage, NewPage: *victim = BufferPage{...}
OverwriteVictim(g) ==
    LET t == threads[g] IN
    /\ ~crashed
    /\ t.pc = "victim"
    /\ bm' = [bm EXCEPT !.frames[t.idx] =
                IF t.op = "PinPage"
                THEN [pageID |-> t.pageID, data |-> bm.frames[t.data].data,
                      isDirty |-> FALSE, pinCount |-> 1, refBit |-> TRUE]
                ELSE [pageID |-> t.pageID, data |-> ZeroPage,
                      isDirty |-> TRUE, pinCount |-> 1, refBit |-> TRUE]]
    /\ threads' = Goto(g, [t EXCEPT !.pc = "pageTable"])
    /\ UNCHANGED <<rootPageID, held, crashed, shadow, written, ret, so>>

\* PinPage, NewPage: delete(bm.pageTable, victim.pageID);
\* bm.pageTable[pageID] = victimIdx
UpdatePageTable(g) ==
    LET t == threads[g]
        deleted == bm.frames[t.idx].pageID
        table1 == [p \in (DOMAIN bm.pageTable) \ {deleted} |-> bm.pageTable[p]]
    IN  /\ ~crashed
        /\ t.pc = "pageTable"
        /\ bm' = [bm EXCEPT !.pageTable = (t.pageID :> t.idx) @@ table1]
        /\ threads' = Goto(g, [t EXCEPT !.pc = "Unlock"])
        /\ UNCHANGED <<rootPageID, held, crashed, shadow, written, ret, so>>

\* The deferred bm.mu.Unlock() and the return. held counts, for each page
\* identifier, the pins that have returned (PinPage and NewPage without
\* error) minus the unpins that have returned.
Unlock(g) ==
    LET t == threads[g]
        p == t.pageID
    IN  /\ ~crashed
        /\ t.pc = "Unlock"
        /\ bm' = [bm EXCEPT !.mu = 0]
        /\ threads' = Goto(g, IF t.op = "NewPage" /\ t.overlap # {} THEN [t EXCEPT !.pc = "idle"]
                              ELSE IdleCall)
        /\ shadow' = << >>
        /\ held' = IF t.err # "ok" THEN held
                   ELSE IF t.op \in {"PinPage", "NewPage"} THEN (p :> Held(p) + 1) @@ held
                   ELSE IF t.op = "UnpinPage" /\ Held(p) > 0 THEN (p :> Held(p) - 1) @@ held
                   ELSE held
        /\ UNCHANGED <<rootPageID, crashed, written, ret, so>>

NextMutex ==
    \/ \E g \in Goroutines, p \in PageIDs : CallPinPage(g, p)
    \/ \E g \in Goroutines, p \in PageIDs, d \in BOOLEAN : CallUnpinPage(g, p, d)
    \/ \E g \in Goroutines, p \in PageIDs : CallFlushPage(g, p)
    \/ \E g \in Goroutines : CallNewPage(g)
    \/ \E g \in Goroutines : Lock(g)
    \/ \E g \in Goroutines : Lookup(g)
    \/ \E g \in Goroutines : IncPinCount(g)
    \/ \E g \in Goroutines : SetRefBit(g)
    \/ \E g \in Goroutines : DecPinCount(g)
    \/ \E g \in Goroutines : SetDirty(g)
    \/ \E g \in Goroutines : ReadNextPageID(g)
    \/ \E g \in Goroutines : IncNextPageID(g)
    \/ \E g \in Goroutines : FindVictim(g)
    \/ \E g \in Goroutines : WriteDisk(g)
    \/ \E g \in Goroutines : OverwriteVictim(g)
    \/ \E g \in Goroutines : UpdatePageTable(g)
    \/ \E g \in Goroutines : Unlock(g)

SpecMutex == InitMutex /\ [][NextMutex]_vars

\* The last calls of goroutines g and h were in progress at the same time.
Concurrent(g, h) == h \in threads[g].overlap /\ g \in threads[h].overlap

\* Goroutine g has returned from a NewPage that gave it a page.
GotNewPage(g) ==
    threads[g].pc = "idle" /\ threads[g].op = "NewPage" /\ threads[g].err = "ok"

\* Goroutine g is between bm.mu.Lock() and bm.mu.Unlock().
InsideCall(g) == threads[g].pc \notin {"idle", "Lock"}

\* C32: whenever no call is inside the buffer manager, the pin count of each
\* resident page equals the pins on it that have returned minus the unpins
\* on it that have returned; two NewPage calls that were in progress at the
\* same time returned different page identifiers and different frames; and
\* while a goroutine is about to select a victim no other goroutine is
\* inside a call.
C32_OperationsAtomicUnderMutex ==
    /\ (~crashed /\ \A g \in Goroutines : ~InsideCall(g))
        => \A p \in DOMAIN bm.pageTable :
              Resident(bm, p) => bm.frames[bm.pageTable[p]].pinCount = Held(p)
    /\ \A g, h \in Goroutines :
          (g # h /\ GotNewPage(g) /\ GotNewPage(h) /\ Concurrent(g, h))
              => /\ threads[g].pageID # threads[h].pageID
                 /\ threads[g].idx # threads[h].idx
    /\ \A g, h \in Goroutines :
          (g # h /\ threads[g].pc = "findVictim") => ~InsideCall(h)

\* ------------------------------------------------ the page identifier 0

\* C33: no page of the tree's buffer manager has the identifier 0, the root
\* is not page 0, and a leaf whose previous-leaf field is 0 has no leaf
\* before it (no other leaf names it as its next leaf).
C33_PageZeroNeverAllocated ==
    rootPageID # NoPage =>
        /\ 0 \notin DOMAIN bm.pageTable
        /\ rootPageID # 0
        /\ \A a \in LeavesIn(bm, rootPageID, MaxDepth) :
              PrevLeaf(bm, a) = 0
                  => ~\E b \in LeavesIn(bm, rootPageID, MaxDepth) \ {a} :
                          NextLeaf(bm, b) = a

\* ------------------------------------------------------- ExtensibleHash
\* src/extensible_hash.go, with the directory scaled down: segments of
\* ehSegmentSize entries, ehMaxSegments of them, buckets of maxBucketSize
\* items before they split.
ehSegmentBits == 1
ehSegmentSize == 2 ^ ehSegmentBits
ehMaxSegments == 4
maxBucketSize == 2

\* The keys the callers use.
MaxEhKey == 5
EhKeys == 0 .. MaxEhKey

\* A *Bucket is an index into buckets, the Bucket objects created so far
\* (0 is nil); a nil *ehSegment is the empty function.
nilBucket == 0

\* &Bucket{items: make([]uint64, 0, maxBucketSize), localDepth: d}
NewBucket(d) == [items |-> << >>, localDepth |-> d]

\* NewExtensibleHash
NewExtensibleHash ==
    [segments |-> [s \in 0 .. (ehMaxSegments - 1) |->
                     IF s = 0 THEN [i \in 0 .. (ehSegmentSize - 1) |->
                                      IF i = 0 THEN 1 ELSE nilBucket]
                     ELSE << >>],
     buckets |-> <<NewBucket(0)>>,
     size |-> 2,
     count |-> 0]

\* ExtensibleHash.getBucketIndex (hash is the identity)
ehGetBucketIndex(e, key) == key % e.size

\* ExtensibleHash.getBucket : the *Bucket of a directory entry
ehGetBucket(e, bucketIndex) ==
    LET seg == e.segments[bucketIndex \div ehSegmentSize]
    IN  IF seg = << >> THEN nilBucket ELSE seg[bucketIndex % ehSegmentSize]

\* ExtensibleHash.setBucket
ehSetBucket(e, bucketIndex, bucket) ==
    LET idx == bucketIndex \div ehSegmentSize
        seg == IF e.segments[idx] = << >>
               THEN [i \in 0 .. (ehSegmentSize - 1) |-> nilBucket]
               ELSE e.segments[idx]
    IN  [e EXCEPT !.segments[idx] = [seg EXCEPT ![bucketIndex % ehSegmentSize] = bucket]]

\* ExtensibleHash.globalDepth
ehGlobalDepth(e) == highBit(e.size)

\* ehGetParent: bucketIndex with its highest set bit cleared (bucketIndex > 0;
\* entry 0 is never nil, so no caller passes 0).
ehGetParent(bucketIndex) == bucketIndex - 2 ^ highBit(bucketIndex)

\* The tail of initializeBucket once the parent's bucket is looked up again.
ehLinkBucket(e, bucketIndex) ==
    LET parentBucket == ehGetBucket(e, ehGetParent(bucketIndex))
    IN  IF parentBucket = nilBucket THEN e
        ELSE ehSetBucket([e EXCEPT !.buckets =
                               Append(@, NewBucket(e.buckets[parentBucket].localDepth))],
                         bucketIndex, Len(e.buckets) + 1)

\* ExtensibleHash.initializeBucket
RECURSIVE ehInitializeBucket(_, _, _)
ehInitializeBucket(e, bucketIndex, size) ==
    IF bucketIndex >= size \/ ehGetParent(bucketIndex) >= size THEN e
    ELSE IF ehGetBucket(e, ehGetParent(bucketIndex)) = nilBucket
         THEN ehLinkBucket(ehInitializeBucket(e, ehGetParent(bucketIndex), size), bucketIndex)
         ELSE ehLinkBucket(e, bucketIndex)

\* The loop of doubleSize: for i := oldSize; i < eh.size; i++
RECURSIVE ehInitializeFrom(_, _)
ehInitializeFrom(e, i) ==
    IF i >= e.size THEN e
    ELSE ehInitializeFrom(ehInitializeBucket(e, i, e.size), i + 1)

\* ExtensibleHash.doubleSize
ehDoubleSize(e) == ehInitializeFrom([e EXCEPT !.size = 2 * @], e.size)

\* Bit number bit of x.
BitOf(x, bit) == (x \div (2 ^ bit)) % 2

\* The items of a slice, in order, whose bit number bit is v.
ItemsWithBit(items, bit, v) == SelectSeq(items, LAMBDA item : BitOf(item, bit) = v)

\* splitBucket after bucket.localDepth++ : depth is the new local depth,
\* the new bucket is created, the items are redistributed and every
\* directory entry that holds bucket and has the bit set gets the new bucket.
ehRedistribute(e, bucket, depth) ==
    LET newBucket == Len(e.buckets) + 1
        items == e.buckets[bucket].items
        buckets1 == Append([e.buckets EXCEPT
                              ![bucket] = [items |-> ItemsWithBit(items, depth - 1, 0),
                                           localDepth |-> depth]],
                           [items |-> ItemsWithBit(items, depth - 1, 1),
                            localDepth |-> depth])
    IN  [e EXCEPT !.buckets = buckets1,
                  !.segments = [s \in DOMAIN e.segments |->
                     IF e.segments[s] = << >> THEN << >>
                     ELSE [i \in DOMAIN e.segments[s] |->
                             IF /\ s * ehSegmentSize + i < e.size
                                /\ e.segments[s][i] = bucket
                                /\ BitOf(s * ehSegmentSize + i, depth - 1) = 1
                             THEN newBucket
                             ELSE e.segments[s][i]]]]

\* ExtensibleHash.splitBucket
ehSplitBucket(e, bucketIndex) ==
    IF ehGetBucket(e, bucketIndex) = nilBucket THEN e
    ELSE ehRedistribute(e, ehGetBucket(e, bucketIndex),
                        e.buckets[ehGetBucket(e, bucketIndex)].localDepth + 1)

\* The end of Insert: the bucket of key is looked up again,
\* bucket.items = append(bucket.items, key); eh.count++; return true.
\* A nil bucket there is a nil dereference ("panic").
ehAppend(e, key) ==
    LET bucket == ehGetBucket(e, ehGetBucketIndex(e, key))
    IN  IF bucket = nilBucket THEN [eh |-> e, ok |-> FALSE, err |-> "panic"]
        ELSE [eh |-> [e EXCEPT !.buckets[bucket].items = Append(@, key),
                               !.count = @ + 1],
              ok |-> TRUE, err |-> "ok"]

InItems(items, key) == \E j \in DOMAIN items : items[j] = key

\* Insert from the duplicate test on; bucket is the bucket of bucketIndex.
ehInsertInto(e, key, bucketIndex, bucket) ==
    IF bucket = nilBucket THEN [eh |-> e, ok |-> FALSE, err |-> "ok"]
    ELSE IF InItems(e.buckets[bucket].items, key)
    THEN [eh |-> e, ok |-> FALSE, err |-> "ok"]
    ELSE IF Len(e.buckets[bucket].items) >= maxBucketSize
    THEN ehAppend(ehSplitBucket(IF e.buckets[bucket].localDepth = ehGlobalDepth(e)
                                THEN ehDoubleSize(e) ELSE e,
                                bucketIndex),
                  key)
    ELSE [eh |-> [e EXCEPT !.buckets[bucket].items = Append(@, key), !.count = @ + 1],
          ok |-> TRUE, err |-> "ok"]

\* Insert once a nil bucket has been initialized.
ehInsertAt(e, key, bucketIndex) == ehInsertInto(e, key, bucketIndex, ehGetBucket(e, bucketIndex))

\* ExtensibleHash.Insert : [eh, ok, err]
ehInsert(e, key) ==
    IF ehGetBucket(e, ehGetBucketIndex(e, key)) = nilBucket
    THEN ehInsertAt(ehInitializeBucket(e, ehGetBucketIndex(e, key), e.size), key,
                    ehGetBucketIndex(e, key))
    ELSE ehInsertAt(e, key, ehGetBucketIndex(e, key))

\* ExtensibleHash.Find
ehFind(e, key) ==
    /\ ehGetBucket(e, ehGetBucketIndex(e, key)) # nilBucket
    /\ InItems(e.buckets[ehGetBucket(e, ehGetBucketIndex(e, key))].items, key)

\* The first position of key in items.
IndexOf(items, key) == CHOOSE j \in DOMAIN items :
                          items[j] = key /\ \A k \in 1 .. (j - 1) : items[k] # key

\* Delete's removal: the last item takes the place of item i, the slice
\* loses its last element.
SwapRemove(items, i) == SubSeq([items EXCEPT ![i] = items[Len(items)]], 1, Len(items) - 1)

\* ExtensibleHash.Delete : [eh, ok]
ehDelete(e, key) ==
    IF ehFind(e, key)
    THEN [eh |-> [e EXCEPT !.buckets[ehGetBucket(e, ehGetBucketIndex(e, key))].items =
                              SwapRemove(@, IndexOf(@, key)),
                           !.count = @ - 1],
          ok |-> TRUE]
    ELSE [eh |-> e, ok |-> FALSE]

\* The Bucket objects the directory points at, in the order of the first
\* entry that holds them.
RECURSIVE ehReachable(_, _)
ehReachable(e, i) ==
    IF i >= e.size THEN << >>
    ELSE LET rest == ehReachable(e, i + 1)
             b == ehGetBucket(e, i)
         IN  IF b = nilBucket THEN rest
             ELSE <<b>> \o SelectSeq(rest, LAMBDA x : x # b)

\* Garbage collection: a Bucket that no directory entry points at is gone.
\* The remaining ones are renumbered in the order of ehReachable.
ehCollect(e) ==
    LET live == ehReachable(e, 0)
        new(b) == IF b = nilBucket THEN nilBucket ELSE IndexOf(live, b)
    IN  [e EXCEPT !.buckets = [j \in DOMAIN live |-> e.buckets[live[j]]],
                  !.segments = [s \in DOMAIN e.segments |->
                                  [i \in DOMAIN e.segments[s] |-> new(e.segments[s][i])]]]

\* -------------------------------------------- callers of ExtensibleHash
\* so is the ExtensibleHash; written is the set of keys that were inserted
\* and not deleted since.
InitEH ==
    /\ bm = NewBufferManager(MaxFrames)
    /\ rootPageID = NoPage
    /\ held = << >>
    /\ crashed = FALSE
    /\ shadow = << >>
    /\ written = {}
    /\ ret = NoCall
    /\ so = NewExtensibleHash
    /\ threads = << >>

\* The directory has room for ehMaxSegments * ehSegmentSize entries.
DoEhInsert(key) ==
    /\ ~crashed
    /\ \E r \in {ehInsert(so, key)} :
        /\ r.eh.size <= ehMaxSegments * ehSegmentSize
        /\ so' = ehCollect(r.eh)
        /\ crashed' = (r.err # "ok")
        /\ ret' = [op |-> "Insert", ok |-> r.ok]
    /\ written' = written \cup {key}
    /\ UNCHANGED <<bm, rootPageID, held, shadow, threads>>

DoEhDelete(key) ==
    /\ ~crashed
    /\ \E r \in {ehDelete(so, key)} :
        /\ so' = r.eh
        /\ ret' = [op |-> "Delete", ok |-> r.ok]
    /\ written' = written \ {key}
    /\ UNCHANGED <<bm, rootPageID, held, crashed, shadow, threads>>

DoEhFind(key) ==
    /\ ~crashed
    /\ ret' = [op |-> "Find", ok |-> ehFind(so, key)]
    /\ UNCHANGED <<bm, rootPageID, held, crashed, shadow, written, so, threads>>

NextEH ==
    \/ \E key \in EhKeys : DoEhInsert(key)
    \/ \E key \in EhKeys : DoEhDelete(key)
    \/ \E key \in EhKeys : DoEhFind(key)

SpecEH == InitEH /\ [][NextEH]_vars

\* C34: after any sequence of Insert and Delete calls, Find(k) is true
\* exactly for the keys k that were inserted and not deleted since, and
\* count is the number of keys for which Find is true.
C34_FindIffInsertedNotDeleted ==
    ~crashed =>
        /\ \A k \in EhKeys : ehFind(so, k) <=> k \in written
        /\ so.count = Cardinality({k \in EhKeys : ehFind(so, k)})

====
